---- MODULE Spec2Model ----
(***************************************************************************)
(* A model of the imapsrv connection engine: the per-connection session    *)
(* loop (imapClient.handle / imapClient.execute), the per-command producer *)
(* goroutine that streams responses down an unbuffered channel, the        *)
(* response writer, the session record and the command handlers.           *)
(*                                                                         *)
(* One connection is modelled.  The client, the authentication backend and *)
(* the mailbox provider are the environment: the client chooses the        *)
(* commands and may drop the connection, the provider may fail any call.   *)
(***************************************************************************)
EXTENDS Integers, Sequences, FiniteSets, TLC

\* ---------------------------------------------------------------- bounds
\* Number of commands a client sends on the connection.
MaxCmds == 3
\* The largest number of octets in a literal
MaxLiteral == 4
\* The most octets on a line handed to one token recogniser
MaxBare == 3
\* The deepest mailbox path in a mailstore handed to session.list
MaxDepth == 2
\* The most segments in a LIST pattern
MaxPattern == 2
\* The nesting of calls at which the goroutine stack counts as exhausted
MaxRecursion == 8

\* ------------------------------------------------------- program constants
\* session states (iota)
notAuthenticated == 0
authenticated == 1
selected == 2

\* encryption levels (iota)
unencryptedLevel == 0
starttlsLevel == 1
tlsLevel == 2

\* math.MaxInt32: the sequence number standing for '*'
largestSequenceNumber == 2147483647

\* Anything longer than this is written as a literal
longLineLength == 80

\* ---------------------------------------------------------- collaborators
\* The authentication backend: Authenticate(user, password) -> (ok, err).
\* One account exists.
Authenticate(userId, password) == userId = "test" /\ password = "pw"

\* The mailstore holds one mailbox, INBOX, with two messages.
\* Mailstore.Mailbox(path) returns nil if the mailbox does not exist.
StoreHas(path) == path = "INBOX"

\* Mailbox interface (provider side)
ProviderAllUids(name) == <<11, 12>>
ProviderTotalMessages(name) == Len(ProviderAllUids(name))
ProviderRecentMessages(name) == 1
ProviderFirstUnseen(name) == ProviderAllUids(name)[2]
ProviderUidValidity(name) == 1
ProviderNextUid(name) == ProviderAllUids(name)[2] + 1

\* ------------------------------------------------------------- responses
\* partialResponse / finalResponse.  A nil *bytes.Buffer in `current` and an
\* empty one are both the empty string here (the code only asks for Len()).
createPartialResponse ==
    [final |-> FALSE, tag |-> "", condition |-> "", message |-> "",
     closeConnection |-> FALSE, bufReplacement |-> 0,
     current |-> "", fields |-> FALSE, entries |-> <<>>]

partial == createPartialResponse

createFinalResponse(tag, condition, message) ==
    [createPartialResponse EXCEPT !.final = TRUE, !.tag = tag,
                                  !.condition = condition, !.message = message]

ok(tag, message) == createFinalResponse(tag, "OK", message)
bad(tag, message) == createFinalResponse(tag, "BAD", message)
no(tag, message) == createFinalResponse(tag, "NO", message)

\* A response that carries nothing but (later) the replacement buffers.
empty == createFinalResponse("", "", "")

shouldClose(r) == [r EXCEPT !.closeConnection = TRUE]

\* fatalResponse: an untagged BYE with the close flag set
fatalResponse(err) ==
    [createFinalResponse("*", "BYE", err) EXCEPT !.closeConnection = TRUE]

\* conn is the TLS layer the replacement reader/writer pair is built on
shouldReplaceBuffers(r, conn) == [r EXCEPT !.bufReplacement = conn]

isClose(r) == r.final /\ r.closeConnection

put(r, s) == [r EXCEPT !.current = r.current \o s, !.fields = FALSE]

putLine(r, s) ==
    [r EXCEPT !.entries = IF Len(r.current) > 0 THEN Append(r.entries, r.current)
                          ELSE r.entries,
              !.current = s,
              !.fields = FALSE]

appendLiteral(b, s) == b \o "{" \o ToString(Len(s)) \o "}\r\n" \o s \o "\r\n"

putField(r, name, value) ==
    LET withName == IF Len(r.current) = 0 THEN name
                    ELSE IF r.fields THEN r.current \o " " \o name
                    ELSE r.current \o name
        withValue == IF Len(value) > longLineLength
                     THEN appendLiteral(withName, value)
                     ELSE withName \o " " \o value
    IN [r EXCEPT !.current = withValue, !.fields = TRUE]

\* One line on the wire: the stream (TLS layer, 0 = plaintext) it was written
\* to, its tag ("*" for untagged data) and the rest of the line.
Line(stream, tag, text) == [stream |-> stream, tag |-> tag, text |-> text]

\* partialResponse.writeTo: the untagged lines of a response, in order
partialLines(r, stream) ==
    [i \in 1..Len(r.entries) |-> Line(stream, "*", r.entries[i])]
    \o (IF Len(r.current) > 0 THEN <<Line(stream, "*", r.current)>> ELSE <<>>)

\* finalResponse.writeTo: untagged lines, then tag SP condition SP message
finalLines(r, stream) ==
    partialLines(r, stream)
    \o <<Line(stream, r.tag, r.condition \o " " \o r.message)>>

writeToLines(r, stream) ==
    IF r.final THEN finalLines(r, stream) ELSE partialLines(r, stream)

\* --------------------------------------------------------------- session
\* *mailboxWrap.  isNil: the pointer itself is nil; provider = "" is a nil
\* Mailbox interface; built: seqNums # nil.
NilMailbox == [isNil |-> TRUE, provider |-> "", built |-> FALSE, seqNums |-> <<>>]

wrapMailbox(mbox) ==
    [isNil |-> FALSE, provider |-> mbox, built |-> FALSE, seqNums |-> <<>>]

\* conn: the TLS layers wrapped around the socket sess.conn stands for
createSession ==
    [st |-> notAuthenticated, user |-> "", mailbox |-> NilMailbox,
     encryption |-> unencryptedLevel, conn |-> 0]

\* getMailbox: ask the store, wrap whatever it returned
getMailbox(path, perr) ==
    IF perr = "Mailbox"
    THEN [err |-> TRUE, mbox |-> NilMailbox]
    ELSE [err |-> FALSE,
          mbox |-> wrapMailbox(IF StoreHas(path) THEN path ELSE "")]

\* session.selectMailbox: (exists, err) and the session after the call
session_selectMailbox(s, path, perr) ==
    LET g == getMailbox(path, perr) IN
    IF g.err THEN [exists |-> FALSE, err |-> TRUE, s |-> s]
    ELSE IF g.mbox.isNil THEN [exists |-> FALSE, err |-> FALSE, s |-> s]
    ELSE [exists |-> TRUE, err |-> FALSE, s |-> [s EXCEPT !.mailbox = g.mbox]]

\* session.addMailboxInfo: panics on a nil mailbox or a nil provider
addMailboxInfo(s, resp, perr) ==
    IF s.mailbox.isNil \/ s.mailbox.provider = ""
    THEN [panic |-> TRUE, err |-> FALSE, res |-> resp]
    ELSE IF perr = "Info"
    THEN [panic |-> FALSE, err |-> TRUE, res |-> resp]
    ELSE LET m == s.mailbox.provider
             r1 == put(resp, ToString(ProviderTotalMessages(m)) \o " EXISTS")
             r2 == put(r1, ToString(ProviderRecentMessages(m)) \o " RECENT")
             r3 == put(r2, "OK [UNSEEN " \o ToString(ProviderFirstUnseen(m))
                           \o "] Message " \o ToString(ProviderFirstUnseen(m))
                           \o " is first unseen")
             r4 == put(r3, "OK [UIDVALIDITY " \o ToString(ProviderUidValidity(m))
                           \o "] UIDs valid")
             r5 == put(r4, "OK [UIDNEXT " \o ToString(ProviderNextUid(m))
                           \o "] Predicted next UID")
         IN [panic |-> FALSE, err |-> FALSE, res |-> r5]

\* mailboxWrap.getUid: builds the table on first use, then indexes it with the
\* sequence number itself
getUid(m, seqnum, perr) ==
    IF m.isNil THEN [panic |-> TRUE, err |-> FALSE, m |-> m, uid |-> -1]
    ELSE IF ~m.built /\ perr = "AllUids"
    THEN [panic |-> FALSE, err |-> TRUE, m |-> m, uid |-> -1]
    ELSE LET m1 == IF m.built THEN m
                   ELSE [m EXCEPT !.built = TRUE,
                                  !.seqNums = ProviderAllUids(m.provider)]
         IN IF seqnum >= Len(m1.seqNums)
            THEN [panic |-> TRUE, err |-> FALSE, m |-> m1, uid |-> -1]
            ELSE [panic |-> FALSE, err |-> FALSE, m |-> m1,
                  uid |-> m1.seqNums[seqnum + 1]]

\* mailboxWrap.fetch
mailbox_fetch(m, seqnum, perr) ==
    LET u == getUid(m, seqnum, perr) IN
    IF u.panic \/ u.err THEN u
    ELSE IF perr = "Fetch" THEN [u EXCEPT !.err = TRUE]
    ELSE u

\* session.fetch with the FLAGS attachment
session_fetch(s, resp, seqnum, perr) ==
    LET f == mailbox_fetch(s.mailbox, seqnum, perr)
        s1 == [s EXCEPT !.mailbox = f.m]
    IN IF f.panic
       THEN [panic |-> TRUE, err |-> FALSE, s |-> s1, resp |-> resp, uid |-> f.uid]
       ELSE IF f.err
       THEN [panic |-> FALSE, err |-> TRUE, s |-> s1, resp |-> resp, uid |-> f.uid]
       ELSE [panic |-> FALSE, err |-> FALSE, s |-> s1, uid |-> f.uid,
             resp |-> putField(resp, "FLAGS", "(\\Seen)")]

\* -------------------------------------------------------------- commands
\* The tag of the n-th command of the connection
Tag(n) == "a" \o ToString(n)

\* A command object as the parser builds it
Command(kind, userId, password, mailbox, sequenceSet) ==
    [kind |-> kind, tag |-> "", userId |-> userId, password |-> password,
     mailbox |-> mailbox, sequenceSet |-> sequenceSet, cmd |-> ""]

\* sequenceRange: end = 0 stands for a nil end (a single sequence number)
sequenceRange(start, end) == [start |-> start, end |-> end]

\* What a client may send
SequenceSets ==
    { <<sequenceRange(1, 0)>>,
      <<sequenceRange(1, largestSequenceNumber)>>,
      <<sequenceRange(2, 0)>> }

Commands ==
    { Command(k, "", "", "", <<>>) :
        k \in {"noop", "capability", "starttls", "logout"} }
    \cup { [Command("unknown", "", "", "", <<>>) EXCEPT !.cmd = "XYZZY"] }
    \cup { Command("login", "test", p, "", <<>>) : p \in {"pw", "bad"} }
    \cup { Command(k, "", "", m, <<>>) :
             k \in {"select", "examine", "status"}, m \in {"INBOX", "nope"} }
    \cup { Command("fetch", "", "", "", ss) : ss \in SequenceSets }

\* The provider call that fails while a command runs ("none": no failure)
ProviderErrors(kind) ==
    CASE kind \in {"select", "examine", "status"} -> {"none", "Mailbox", "Info"}
      [] kind = "noop" -> {"none", "Info"}
      [] kind = "fetch" -> {"none", "AllUids", "Fetch"}
      [] OTHER -> {"none"}

\* The steps of a producer goroutine: a session assignment, a channel send, a
\* raw write to sess.conn, a call of a collaborator, a runtime panic.
Set(s) == [op |-> "set", r |-> partial, s |-> s, arg |-> <<>>]
Send(r) == [op |-> "send", r |-> r, s |-> createSession, arg |-> <<>>]
ConnWrite(r, s) == [op |-> "connWrite", r |-> r, s |-> s, arg |-> <<>>]
Auth == [op |-> "auth", r |-> partial, s |-> createSession, arg |-> <<>>]
Store == [op |-> "store", r |-> partial, s |-> createSession, arg |-> <<>>]
Panic == [op |-> "panic", r |-> partial, s |-> createSession, arg |-> <<>>]
\* m.provider.Fetch(uid), called for sequence number seqnum
ProviderFetch(seqnum, uid) ==
    [op |-> "fetch", r |-> partial, s |-> createSession, arg |-> <<seqnum, uid>>]

internalError(tag, commandName, err) ==
    shouldClose(no(tag, commandName \o " " \o err))

mustAuthenticate(tag, commandName) ==
    bad(tag, commandName \o " not authenticated")

RECURSIVE Join(_, _)
Join(strs, sep) ==
    IF strs = <<>> THEN ""
    ELSE IF Len(strs) = 1 THEN strs[1]
    ELSE strs[1] \o sep \o Join(Tail(strs), sep)

\* noop.execute without the test of the session state
noop_execute_NoStateTest(c, s, perr) ==
    LET res == ok(c.tag, "NOOP Completed")
        info == addMailboxInfo(s, res, perr)
    IN IF info.panic THEN <<Panic>>
       ELSE IF info.err
       THEN <<Store, Send(no(c.tag, "NOOP failed")), Send(res)>>
       ELSE <<Store, Send(info.res)>>

\* noop.execute
noop_execute(c, s, perr) ==
    LET res == ok(c.tag, "NOOP Completed") IN
    IF s.st = selected
    THEN LET info == addMailboxInfo(s, res, perr) IN
         IF info.panic THEN <<Panic>>
         ELSE IF info.err
         THEN <<Store, Send(no(c.tag, "NOOP failed")), Send(res)>>
         ELSE <<Store, Send(info.res)>>
    ELSE <<Send(res)>>

\* capability.execute: the advertised capabilities
capabilityCommands(s, listenerEncryption) ==
    IF s.st = notAuthenticated
    THEN CASE listenerEncryption = unencryptedLevel -> <<>>
           [] listenerEncryption = starttlsLevel ->
                IF s.encryption = tlsLevel THEN <<>>
                ELSE <<"STARTTLS", "LOGINDISABLED">>
           [] listenerEncryption = tlsLevel -> <<>>
    ELSE <<>>

capability_execute(c, s, listenerEncryption) ==
    <<Send(putLine(ok(c.tag, "CAPABILITY completed"),
                   "CAPABILITY IMAP4rev1 "
                   \o Join(capabilityCommands(s, listenerEncryption), " ")))>>

\* starttls.execute
starttls_execute(c, s) ==
    LET s1 == [s EXCEPT !.conn = s.conn + 1]
        s2 == [s1 EXCEPT !.encryption = tlsLevel]
    IN <<ConnWrite(ok(c.tag, "Begin TLS negotiation now"), s),
         Set(s1), Set(s2),
         Send(shouldReplaceBuffers(empty, s1.conn))>>

\* login.execute without its "already logged in" test
login_execute_NoStateTest(c, s) ==
    IF Authenticate(c.userId, c.password)
    THEN <<Auth, Set([s EXCEPT !.st = authenticated]),
           Set([s EXCEPT !.st = authenticated, !.user = c.userId]),
           Send(ok(c.tag, "LOGIN completed"))>>
    ELSE <<Auth, Send(no(c.tag, "LOGIN failure"))>>

\* login.execute
login_execute(c, s) ==
    IF s.st # notAuthenticated
    THEN <<Send(bad(c.tag, "LOGIN already logged in"))>>
    ELSE IF Authenticate(c.userId, c.password)
    THEN <<Auth, Set([s EXCEPT !.st = authenticated]),
           Set([s EXCEPT !.st = authenticated, !.user = c.userId]),
           Send(ok(c.tag, "LOGIN completed"))>>
    ELSE <<Auth, Send(no(c.tag, "LOGIN failure"))>>

\* logout.execute without the close flag on its response
logout_execute_NoClose(c, s) ==
    <<Set([s EXCEPT !.st = notAuthenticated]),
      Set([s EXCEPT !.st = notAuthenticated, !.user = ""]),
      Send(putLine(ok(c.tag, "LOGOUT completed"),
                   "BYE IMAP4rev1 Server logging out"))>>

\* logout.execute
logout_execute(c, s) ==
    <<Set([s EXCEPT !.st = notAuthenticated]),
      Set([s EXCEPT !.st = notAuthenticated, !.user = ""]),
      Send(putLine(shouldClose(ok(c.tag, "LOGOUT completed")),
                   "BYE IMAP4rev1 Server logging out"))>>

\* selectMailbox.execute and examine.execute (name: SELECT or EXAMINE,
\* okMessage: the text of the tagged OK)
select_execute(c, s, perr, name, okMessage) ==
    IF s.st = notAuthenticated
    THEN <<Send(mustAuthenticate(c.tag, name))>>
    ELSE LET sel == session_selectMailbox(s, c.mailbox, perr) IN
         IF sel.err
         THEN <<Store, Send(internalError(c.tag, name, "provider error"))>>
         ELSE IF ~sel.exists
         THEN <<Store, Send(no(c.tag, name \o " No such mailbox")),
                Set([s EXCEPT !.st = authenticated])>>
         ELSE LET info == addMailboxInfo(sel.s, ok(c.tag, okMessage), perr) IN
              IF info.panic THEN <<Store, Set(sel.s), Panic>>
              ELSE IF info.err
              THEN <<Store, Set(sel.s), Store,
                     Send(internalError(c.tag, "SELECT", "provider error"))>>
              ELSE <<Store, Set(sel.s), Store,
                     Set([sel.s EXCEPT !.st = selected]),
                     Send(info.res)>>

selectMailbox_execute(c, s, perr) ==
    select_execute(c, s, perr, "SELECT", "SELECT completed")

examine_execute(c, s, perr) ==
    select_execute(c, s, perr, "EXAMINE", "[READ-ONLY] EXAMINE completed")

\* status.execute
status_execute(c, s, perr) ==
    IF s.st = notAuthenticated
    THEN <<Send(mustAuthenticate(c.tag, "STATUS"))>>
    ELSE LET sel == session_selectMailbox(s, c.mailbox, perr) IN
         IF sel.err
         THEN <<Store, Send(internalError(c.tag, "STATUS", "provider error"))>>
         ELSE IF ~sel.exists
         THEN <<Store, Send(no(c.tag, "STATUS No such mailbox")),
                Set([s EXCEPT !.st = authenticated])>>
         ELSE LET info == addMailboxInfo(sel.s, ok(c.tag, "STATUS completed"), perr)
              IN IF info.panic THEN <<Store, Set(sel.s), Panic>>
                 ELSE IF info.err
                 THEN <<Store, Set(sel.s), Store,
                        Send(internalError(c.tag, "SELECT", "provider error"))>>
                 ELSE <<Store, Set(sel.s), Store, Send(info.res)>>

\* fetch.execute: the loop over the sequence ranges
RECURSIVE fetchRanges(_, _, _, _)
RECURSIVE fetchRange(_, _, _, _, _)
fetchRange(c, s, ranges, i, perr) ==
    LET resp == put(partial, ToString(i) \o " FETCH")
        f == session_fetch(s, resp, i, perr)
        seqRange == Head(ranges)
    IN IF f.panic
       THEN (IF s.mailbox.isNil THEN <<Panic>> ELSE <<Store, Set(f.s), Panic>>)
       ELSE IF f.err
       THEN <<Store, Set(f.s)>>
            \o (IF f.uid # -1 THEN <<ProviderFetch(i, f.uid)>> ELSE <<>>)
            \o <<Send(internalError(c.tag, "FETCH", "provider error"))>>
       ELSE <<Store, Set(f.s), ProviderFetch(i, f.uid), Send(f.resp)>>
            \o (IF seqRange.end = 0 \/ i + 1 > seqRange.end
                THEN fetchRanges(c, f.s, Tail(ranges), perr)
                ELSE fetchRange(c, f.s, ranges, i + 1, perr))

fetchRanges(c, s, ranges, perr) ==
    IF ranges = <<>> THEN <<Send(ok(c.tag, "FETCH completed"))>>
    ELSE fetchRange(c, s, ranges, Head(ranges).start, perr)

fetch_execute(c, s, perr) ==
    IF s.st = notAuthenticated
    THEN <<Send(mustAuthenticate(c.tag, "FETCH"))>>
    ELSE (IF s.st # selected
          THEN <<Send(bad(c.tag, "Must SELECT first"))>> ELSE <<>>)
         \o fetchRanges(c, s, c.sequenceSet, perr)

\* unknown.execute
unknown_execute(c, s) ==
    LET message == c.cmd \o " unknown command" IN <<Send(bad(c.tag, message))>>

\* cmd.execute(sess, ch): the steps the producer goroutine of c takes
Execute(c, s, perr, listenerEncryption) ==
    CASE c.kind = "noop" -> noop_execute(c, s, perr)
      [] c.kind = "capability" -> capability_execute(c, s, listenerEncryption)
      [] c.kind = "starttls" -> starttls_execute(c, s)
      [] c.kind = "login" -> login_execute(c, s)
      [] c.kind = "logout" -> logout_execute(c, s)
      [] c.kind = "select" -> selectMailbox_execute(c, s, perr)
      [] c.kind = "examine" -> examine_execute(c, s, perr)
      [] c.kind = "status" -> status_execute(c, s, perr)
      [] c.kind = "fetch" -> fetch_execute(c, s, perr)
      [] OTHER -> unknown_execute(c, s)

\* ------------------------------------------------------------------ lexer
\* Octets are one-character strings; a line and a token are sequences of them.
cr == "\r"
lf == "\n"
space == " "
doubleQuote == "\""
leftCurly == "{"
rightCurly == "}"
backslash == "\\"

tab == "\t"
\* The octet 0x7F (the string holds that one unprintable octet)
del == ""

\* The Ascii code of an octet.  The letters all lie between space and del and
\* are told apart nowhere by their code: the code of "a" stands for each.
Ord(c) ==
    CASE c = tab -> 9 [] c = lf -> 10 [] c = cr -> 13 [] c = space -> 32
      [] c = doubleQuote -> 34 [] c = "%" -> 37 [] c = "(" -> 40
      [] c = ")" -> 41 [] c = "*" -> 42 [] c = "+" -> 43
      [] c \in {ToString(d) : d \in 0..9} ->
           48 + (CHOOSE d \in 0..9 : ToString(d) = c)
      [] c = "[" -> 91 [] c = backslash -> 92 [] c = "]" -> 93
      [] c = leftCurly -> 123 [] c = rightCurly -> 125 [] c = del -> 127
      [] OTHER -> 97

\* astringExceptionsChar with the right bracket added to it
astringExceptionsChar_WithBracket ==
    {space, "(", ")", "%", "*", backslash, leftCurly, "]"}

astringExceptionsChar == {space, "(", ")", "%", "*", backslash, leftCurly}
tagExceptionsChar == {space, "(", ")", "%", "*", backslash, leftCurly, "+"}

\* The decimal digits and the value of one
Digits == {ToString(d) : d \in 0..9}
DigitValue(c) == CHOOSE d \in 0..9 : ToString(d) = c

\* textproto.Reader.ReadLineBytes: the octets up to the next LF, without the
\* LF and without a CR before it; what is left of an input that ends without
\* LF; an error when the input has ended
RECURSIVE IndexOfLf(_, _)
IndexOfLf(r, i) ==
    IF i > Len(r) THEN 0 ELSE IF r[i] = lf THEN i ELSE IndexOfLf(r, i + 1)

ReadLineBytes(r) ==
    LET k == IndexOfLf(r, 1) IN
    IF k = 0
    THEN IF r = <<>> THEN [err |-> TRUE, line |-> <<>>, rest |-> <<>>]
         ELSE [err |-> FALSE, line |-> r, rest |-> <<>>]
    ELSE LET raw == SubSeq(r, 1, k - 1)
             line == IF raw # <<>> /\ raw[Len(raw)] = cr
                     THEN SubSeq(raw, 1, Len(raw) - 1) ELSE raw
         IN [err |-> FALSE, line |-> line, rest |-> SubSeq(r, k + 1, Len(r))]

\* createLexer.  err: a parseError panic was raised.  The token stack of the
\* lexer only serves pushBackToken and is left out.
createLexer(in) == [reader |-> in, line |-> <<>>, idx |-> 0, err |-> FALSE]

\* lexer.current
current(l) == IF l.idx < Len(l.line) THEN l.line[l.idx + 1] ELSE lf

\* lexer.newLine
newLine(l) ==
    LET rd == ReadLineBytes(l.reader) IN
    IF l.err \/ rd.err THEN [l EXCEPT !.err = TRUE]
    ELSE [l EXCEPT !.reader = rd.rest, !.line = rd.line, !.idx = 0]

\* lexer.consume: does not go through newlines
consume(l) == IF l.idx < Len(l.line) THEN [l EXCEPT !.idx = @ + 1] ELSE l

\* lexer.consumeAll: goes through newlines
consumeAll(l) ==
    IF l.idx >= Len(l.line) THEN newLine(l) ELSE [l EXCEPT !.idx = @ + 1]

\* lexer.skipSpace
RECURSIVE skipSpace(_)
skipSpace(l) == IF current(l) = space THEN skipSpace(consume(l)) ELSE l

\* The result of a lexer function: (ok, token) and the lexer afterwards
LexResult(good, tok, l) == [ok |-> good, tok |-> tok, l |-> l]

\* lexer.nonquoted
RECURSIVE nonquotedLoop(_, _, _)
nonquotedLoop(l, exceptions, buffer) ==
    LET c == current(l) IN
    IF Ord(c) > Ord(space) /\ Ord(c) < 127 /\ c \notin exceptions
    THEN nonquotedLoop(consume(l), exceptions, Append(buffer, c))
    ELSE LexResult(buffer # <<>>, buffer, l)

nonquoted(l, exceptions) == nonquotedLoop(l, exceptions, <<>>)

\* lexer.qstring
RECURSIVE qstringLoop(_, _)
qstringLoop(l, buffer) ==
    LET c == current(l) IN
    IF c = doubleQuote THEN LexResult(TRUE, buffer, consume(l))
    ELSE IF c \in {cr, lf} THEN LexResult(TRUE, buffer, [l EXCEPT !.err = TRUE])
    ELSE IF c = backslash
    THEN LET l1 == consume(l) IN
         qstringLoop(consume(l1), Append(buffer, current(l1)))
    ELSE qstringLoop(consume(l), Append(buffer, c))

qstring(l) == qstringLoop(l, <<>>)

\* strconv.ParseInt(s, 10, 32) of a string of digits
RECURSIVE ParseInt(_)
ParseInt(digits) ==
    IF digits = <<>> THEN 0
    ELSE ParseInt(SubSeq(digits, 1, Len(digits) - 1)) * 10
         + DigitValue(digits[Len(digits)])

\* lexer.literal, first loop: the length up to the right curly
RECURSIVE literalLength(_, _)
literalLength(l, lengthBuffer) ==
    LET c == current(l) IN
    IF c = rightCurly THEN [l |-> l, digits |-> lengthBuffer]
    ELSE IF c \notin Digits
    THEN [l |-> [l EXCEPT !.err = TRUE], digits |-> lengthBuffer]
    ELSE literalLength(consume(l), Append(lengthBuffer, c))

\* lexer.literal, second loop: append the current octet, stop when the length
\* is used up, otherwise move on with consumeAll
RECURSIVE literalRead(_, _, _)
literalRead(l, buffer, length) ==
    IF l.err THEN LexResult(TRUE, buffer, l)
    ELSE IF length - 1 = 0 THEN LexResult(TRUE, Append(buffer, current(l)), l)
    ELSE literalRead(consumeAll(l), Append(buffer, current(l)), length - 1)

\* lexer.literal
literal(l) ==
    LET h == literalLength(l, <<>>) IN
    IF h.l.err \/ h.digits = <<>> \/ ParseInt(h.digits) > largestSequenceNumber
    THEN LexResult(TRUE, <<>>, [h.l EXCEPT !.err = TRUE])
    ELSE LET length == ParseInt(h.digits)
             l1 == newLine(h.l)
         IN IF l1.err \/ length <= 0 THEN LexResult(TRUE, <<>>, l1)
            ELSE literalRead(l1, <<>>, length)

\* lexer.generalString
generalString(l, exceptions) ==
    CASE current(l) = doubleQuote -> qstring(consume(l))
      [] current(l) = leftCurly -> literal(consume(l))
      [] OTHER -> nonquoted(l, exceptions)

\* lexer.astring
astring(l) == generalString(skipSpace(l), astringExceptionsChar)

\* lexer.tag
tag(l) == nonquoted(skipSpace(l), tagExceptionsChar)

\* parser.expectString: a failed lex is a parseError panic
expectString(res) == IF res.ok THEN res ELSE [res EXCEPT !.l.err = TRUE]

\* strings.ToLower
UpperCase ==
    <<"A", "B", "C", "D", "E", "F", "G", "H", "I", "J", "K", "L", "M",
      "N", "O", "P", "Q", "R", "S", "T", "U", "V", "W", "X", "Y", "Z">>
LowerCase ==
    <<"a", "b", "c", "d", "e", "f", "g", "h", "i", "j", "k", "l", "m",
      "n", "o", "p", "q", "r", "s", "t", "u", "v", "w", "x", "y", "z">>

\* strings.ToLower that leaves every letter as it is
ToLower_KeepCase(tok) == tok

ToLower(tok) ==
    [i \in 1..Len(tok) |->
        IF \E k \in DOMAIN UpperCase : UpperCase[k] = tok[i]
        THEN LowerCase[CHOOSE k \in DOMAIN UpperCase : UpperCase[k] = tok[i]]
        ELSE tok[i]]

\* What a client sends for a string argument: the bare octets, or a literal
Bare(octets) == octets
Literal(octets) ==
    <<leftCurly, ToString(Len(octets)), rightCurly, cr, lf>> \o octets

\* The octet strings a client puts into a literal: letters and line breaks
LiteralChunks == {<<"t">>, <<"e">>, <<cr, lf>>}

RECURSIVE OctetsOf(_)
OctetsOf(k) ==
    IF k = 0 THEN {<<>>}
    ELSE LET shorter == OctetsOf(k - 1) IN
         shorter \cup {p \o c : p \in {q \in shorter : Len(q) < MaxLiteral},
                               c \in {d \in LiteralChunks : Len(d) <= MaxLiteral}}

LiteralOctets == {o \in OctetsOf(MaxLiteral) : Len(o) <= MaxLiteral}

\* A command line as the client sends it: tag, keyword and two arguments
CommandLine(keyword, userArg, passArg) ==
    <<"a", "1", space>> \o keyword \o <<space>>
    \o userArg \o <<space>> \o passArg \o <<cr, lf>>

LOGIN == <<"L", "O", "G", "I", "N">>

\* Keywords in other spellings, and keywords parser.next does not know
OtherKeywords ==
    { <<"l", "o", "g", "i", "n">>, <<"L", "o", "G", "i", "n">>,
      <<"N", "O", "O", "P">>, <<"n", "o", "o", "p">>, <<"N", "o", "o", "P">>,
      <<"X", "Y", "Z", "Z", "Y">>, <<"x", "y", "z", "z", "y">>,
      <<"L", "O", "G">>, <<"L", "O", "G", "I", "N", "S">>,
      <<"n", "o", "o", "p", "]">> }

\* The commands a client sends: LOGIN with the user as a literal or bare and
\* the password bare or as a literal; the other keywords with two arguments
LexInputs ==
    { [keyword |-> LOGIN, user |-> u, userLit |-> TRUE, pass |-> p,
       passLit |-> pl] :
        u \in LiteralOctets, p \in {<<"p", "w">>}, pl \in BOOLEAN }
    \cup { [keyword |-> k, user |-> <<"t", "e">>, userLit |-> FALSE,
            pass |-> <<"p", "w">>, passLit |-> pl] :
              k \in {LOGIN} \cup OtherKeywords, pl \in BOOLEAN }

OctetsOfInput(in) ==
    CommandLine(in.keyword,
                IF in.userLit THEN Literal(in.user) ELSE Bare(in.user),
                IF in.passLit THEN Literal(in.pass) ELSE Bare(in.pass))

\* ------------------------------------------------------------------ state
VARIABLES
    listener,    \* listener.encryption of the listener that accepted the client
    sess,        \* the session record (created after the welcome)
    pc,          \* the session loop: "welcome", "next", "range", "write", "closed"
    ncmds,       \* commands parsed so far on this connection
    cmd,         \* the command being executed (or the last one executed)
    readFrom,    \* the stream the parser read cmd from
    pre,         \* the session as it was when cmd was dispatched
    todo,        \* remaining steps of the producer goroutine of cmd
    chOpen,      \* the output channel of cmd is not yet closed
    alive,       \* number of live producer goroutines
    cur,         \* the response the loop received and is writing
    sent,        \* the responses the loop received for cmd, in order
    keepOpen,    \* execute's result so far
    newBuffers,  \* execute's second result so far (0: nil)
    bufin,       \* c.bufin: the stream it reads (TLS layer, 0 = plaintext)
    bufout,      \* c.bufout: stream, buffered lines, sticky write error
    lexReader,   \* parser.lexer.reader.R: the stream the lexer reads
    wire,        \* every line delivered to the socket, in order
    connOpen,    \* the server has not closed the socket
    clientGone,  \* the client dropped the connection
    crashed,     \* an unrecovered panic ended the server process
    calls,       \* collaborator calls made while executing cmd
    fault,       \* the provider call that fails while cmd runs ("none": none)
    fatal,       \* the response the deferred recover built for a parseError
    lx           \* the parser at work on one command line (see LexSpec); the
                 \* input and outcome of one call in AstringSpec, ListSpec,
                 \* MgmtSpec, LsubSpec, TokenSpec and PutSpec; the listener
                 \* list in ShutSpec, a mailbox bucket and its handle in
                 \* BoltSpec, an LMTP connection in LmtpSpec

serverVars ==
    <<listener, sess, pc, ncmds, cmd, readFrom, pre, todo, chOpen, alive,
      cur, sent, keepOpen, newBuffers, bufin, bufout, lexReader, wire,
      connOpen, clientGone, crashed, calls, fault, fatal>>

vars == <<serverVars, lx>>

\* The parser before it is given a line
LexIdle ==
    [pc |-> "idle", l |-> createLexer(<<>>),
     input |-> [keyword |-> <<>>, user |-> <<>>, userLit |-> FALSE,
                pass |-> <<>>, passLit |-> FALSE],
     tag |-> <<>>, command |-> <<>>, userId |-> <<>>, password |-> <<>>,
     kind |-> "", todo |-> <<>>]

\* The listeners the options can configure: ListenOption, ListenSTARTTLSOoption
Listeners == {unencryptedLevel, starttlsLevel}

NoCalls == [auth |-> 0, store |-> 0, fetched |-> <<>>]

\* bufio.NewWriter(conn)
NewWriter(stream) == [w |-> stream, buf |-> <<>>, err |-> FALSE]

\* A line of the wire, stamped with the number of the command that wrote it
Stamp(lines, n) ==
    [i \in 1..Len(lines) |->
        [stream |-> lines[i].stream, tag |-> lines[i].tag,
         text |-> lines[i].text, n |-> n]]

\* r.writeTo(c.bufout): the writer and the wire afterwards, and the error.
\* A bufio.Writer fails every write after a failed flush; the result of the
\* Flush that ends a final response is dropped.
writeTo(r, w, delivered, gone, n) ==
    IF w.err
    THEN [w |-> w, wire |-> delivered, err |-> TRUE]
    ELSE LET buffered == w.buf \o Stamp(writeToLines(r, w.w), n) IN
         IF ~r.final
         THEN [w |-> [w EXCEPT !.buf = buffered], wire |-> delivered, err |-> FALSE]
         ELSE IF gone
         THEN [w |-> [w EXCEPT !.buf = <<>>, !.err = TRUE],
               wire |-> delivered, err |-> FALSE]
         ELSE [w |-> [w EXCEPT !.buf = <<>>],
               wire |-> delivered \o buffered, err |-> FALSE]

Init ==
    /\ listener \in Listeners
    /\ sess = createSession
    /\ pc = "welcome"
    /\ ncmds = 0
    /\ cmd = Command("none", "", "", "", <<>>)
    /\ readFrom = 0
    /\ pre = createSession
    /\ todo = <<>>
    /\ chOpen = FALSE
    /\ alive = 0
    /\ cur = partial
    /\ sent = <<>>
    /\ keepOpen = TRUE
    /\ newBuffers = 0
    /\ bufin = 0
    /\ bufout = NewWriter(0)
    /\ lexReader = 0
    /\ wire = <<>>
    /\ connOpen = TRUE
    /\ clientGone = FALSE
    /\ crashed = FALSE
    /\ calls = NoCalls
    /\ fault = "none"
    /\ fatal = partial
    /\ lx = LexIdle

\* handle: write the welcome message, create the session
Welcome ==
    /\ ~crashed /\ pc = "welcome"
    /\ LET w == writeTo(ok("*", "IMAP4rev1 Service Ready"), bufout, wire,
                        clientGone, 0)
       IN /\ bufout' = w.w
          /\ wire' = w.wire
          /\ IF w.err
             THEN /\ pc' = "closed" /\ connOpen' = FALSE /\ sess' = sess
             ELSE /\ pc' = "next" /\ connOpen' = connOpen /\ sess' = createSession
    /\ UNCHANGED <<listener, ncmds, cmd, readFrom, pre, todo, chOpen, alive, cur,
                   sent, keepOpen, newBuffers, bufin, lexReader, clientGone,
                   crashed, calls, fault, fatal, lx>>

\* handle: command := parser.next(); execute: ch := make(chan response);
\* go cmd.execute(sess, ch); keepOpen = true
ParseCommand ==
    /\ ~crashed /\ pc = "next" /\ ncmds < MaxCmds
    /\ \E c \in Commands : \E perr \in ProviderErrors(c.kind) :
         LET tagged == [c EXCEPT !.tag = Tag(ncmds + 1)] IN
         /\ cmd' = tagged
         /\ fault' = perr
         /\ todo' = Execute(tagged, sess, perr, listener)
    /\ ncmds' = ncmds + 1
    /\ readFrom' = lexReader
    /\ pre' = sess
    /\ chOpen' = TRUE
    /\ alive' = alive + 1
    /\ sent' = <<>>
    /\ keepOpen' = TRUE
    /\ newBuffers' = 0
    /\ calls' = NoCalls
    /\ pc' = "range"
    /\ UNCHANGED <<listener, sess, cur, bufin, bufout, lexReader, wire, connOpen,
                   clientGone, crashed, fatal, lx>>

\* The parseErrors the lexer and parser raise: a malformed command, a read
\* error of the connection
ParseErrors == {"Expected ASTRING", "EOF"}

\* handle, deferred recover: fatalResponse(c.bufout, err) returns the response
\* it built; nothing calls its writeTo, so writer and wire stay as they are
RecoverWrite(r, w, delivered, gone, n) ==
    [w |-> w, wire |-> delivered, err |-> FALSE]

\* handle: parser.next() panics with a parseError (malformed input, or a read
\* error such as EOF in lexer.newLine); the deferred recover builds the fatal
\* response and the deferred close closes the socket
ParseError ==
    /\ ~crashed /\ pc = "next"
    /\ \E err \in ParseErrors :
         LET w == RecoverWrite(fatalResponse(err), bufout, wire, clientGone, ncmds)
         IN /\ fatal' = fatalResponse(err)
            /\ bufout' = w.w
            /\ wire' = w.wire
    /\ pc' = "closed"
    /\ connOpen' = FALSE
    /\ UNCHANGED <<listener, sess, ncmds, cmd, readFrom, pre, todo, chOpen, alive,
                   cur, sent, keepOpen, newBuffers, bufin, lexReader,
                   clientGone, crashed, calls, fault, lx>>

\* The producer goroutine takes a step that is not a channel operation
ProducerStep ==
    /\ ~crashed /\ chOpen /\ todo # <<>>
    /\ LET o == Head(todo) IN
       /\ o.op \in {"set", "auth", "store", "fetch", "connWrite"}
       /\ sess' = IF o.op = "set" THEN o.s ELSE sess
       /\ calls' = CASE o.op = "auth" -> [calls EXCEPT !.auth = @ + 1]
                     [] o.op = "store" -> [calls EXCEPT !.store = @ + 1]
                     [] o.op = "fetch" ->
                          [calls EXCEPT !.fetched = Append(@, o.arg)]
                     [] OTHER -> calls
       /\ wire' = IF o.op = "connWrite" /\ ~clientGone
                  THEN wire \o Stamp(<<Line(o.s.conn, o.r.tag,
                                          o.r.condition \o " " \o o.r.message)>>,
                                     ncmds)
                  ELSE wire
    /\ todo' = Tail(todo)
    /\ UNCHANGED <<listener, pc, ncmds, cmd, readFrom, pre, chOpen, alive, cur,
                   sent, keepOpen, newBuffers, bufin, bufout, lexReader, connOpen,
                   clientGone, crashed, fault, fatal, lx>>

\* out <- r meets the loop's receive in "for r := range ch"
ProducerSend ==
    /\ ~crashed /\ chOpen /\ todo # <<>> /\ Head(todo).op = "send"
    /\ pc = "range"
    /\ cur' = Head(todo).r
    /\ sent' = Append(sent, Head(todo).r)
    /\ todo' = Tail(todo)
    /\ pc' = "write"
    /\ UNCHANGED <<listener, sess, ncmds, cmd, readFrom, pre, chOpen, alive,
                   keepOpen, newBuffers, bufin, bufout, lexReader, wire, connOpen,
                   clientGone, crashed, calls, fault, fatal, lx>>

\* A runtime panic in the producer goroutine: nothing recovers it there. The
\* deferred close(out) runs while the goroutine unwinds, then the process ends
ProducerPanic ==
    /\ ~crashed /\ chOpen /\ todo # <<>> /\ Head(todo).op = "panic"
    /\ crashed' = TRUE
    /\ chOpen' = FALSE
    /\ alive' = alive - 1
    /\ UNCHANGED <<listener, sess, pc, ncmds, cmd, readFrom, pre, todo, cur,
                   sent, keepOpen, newBuffers, bufin, bufout, lexReader, wire,
                   connOpen, clientGone, calls, fault, fatal, lx>>

\* defer close(out): the handler returned
ProducerClose ==
    /\ ~crashed /\ chOpen /\ todo = <<>>
    /\ chOpen' = FALSE
    /\ alive' = alive - 1
    /\ UNCHANGED <<listener, sess, pc, ncmds, cmd, readFrom, pre, todo, cur, sent,
                   keepOpen, newBuffers, bufin, bufout, lexReader, wire, connOpen,
                   clientGone, crashed, calls, fault, fatal, lx>>

\* execute: the body of the range loop for the response just received
LoopWrite ==
    /\ ~crashed /\ pc = "write"
    /\ LET w == writeTo(cur, bufout, wire, clientGone, ncmds) IN
       /\ bufout' = w.w
       /\ wire' = w.wire
       /\ newBuffers' = IF cur.final THEN cur.bufReplacement ELSE newBuffers
       /\ keepOpen' = IF w.err \/ isClose(cur) THEN FALSE ELSE keepOpen
    /\ pc' = "range"
    /\ UNCHANGED <<listener, sess, ncmds, cmd, readFrom, pre, todo, chOpen, alive,
                   cur, sent, bufin, lexReader, connOpen, clientGone, crashed,
                   calls, fault, fatal, lx>>

\* A loop that stops ranging as soon as it has written a final response
RangeEndsAfterFinal == ~chOpen \/ (sent # <<>> /\ sent[Len(sent)].final)

\* A loop that stops ranging once the connection is to be closed
RangeEndsOnClose == ~chOpen \/ ~keepOpen

\* "for r := range ch" ends when the producer has closed the channel
RangeEnds == ~chOpen

\* A swap that forgets the lexer's reader
SwapBuffersKeepLexer(nb, in, out, lex) ==
    IF nb # 0 THEN <<nb, NewWriter(nb), lex>> ELSE <<in, out, lex>>

\* handle, after execute returned: what becomes of the three readers/writers
\* <<c.bufin, c.bufout, parser.lexer.reader.R>>
SwapBuffers(nb, in, out, lex) ==
    IF nb # 0 THEN <<nb, NewWriter(nb), nb>> ELSE <<in, out, lex>>

\* execute returns; handle breaks out of the loop or installs the new buffers
LoopReturn ==
    /\ ~crashed /\ pc = "range" /\ RangeEnds
    /\ IF ~keepOpen
       THEN /\ pc' = "closed"
            /\ connOpen' = FALSE
            /\ UNCHANGED <<bufin, bufout, lexReader, fault>>
       ELSE /\ pc' = "next"
            /\ connOpen' = connOpen
            /\ LET b == SwapBuffers(newBuffers, bufin, bufout, lexReader) IN
               /\ bufin' = b[1]
               /\ bufout' = b[2]
               /\ lexReader' = b[3]
    /\ UNCHANGED <<listener, sess, ncmds, cmd, readFrom, pre, todo, chOpen, alive,
                   cur, sent, keepOpen, newBuffers, wire, clientGone, crashed,
                   calls, fault, fatal, lx>>

\* The client drops the connection
ClientClose ==
    /\ ~crashed /\ ~clientGone /\ pc # "closed"
    /\ clientGone' = TRUE
    /\ UNCHANGED <<listener, sess, pc, ncmds, cmd, readFrom, pre, todo, chOpen,
                   alive, cur, sent, keepOpen, newBuffers, bufin, bufout,
                   lexReader, wire, connOpen, crashed, calls, fault, fatal, lx>>

Next ==
    \/ Welcome
    \/ ParseCommand
    \/ ParseError
    \/ ProducerStep
    \/ ProducerSend
    \/ ProducerPanic
    \/ ProducerClose
    \/ LoopWrite
    \/ LoopReturn
    \/ ClientClose

Spec == Init /\ [][Next]_vars

\* lexer.newLine on a connection the client has dropped: ReadLineBytes returns
\* the read error once the buffered input is used up
ReadError == clientGone /\ ParseError

\* The Go scheduler runs every goroutine that can take a step: the connection
\* goroutine (handle, execute) and the producer goroutine of the command. A
\* read of a dropped connection returns. Nothing makes a connected client send.
Fairness ==
    /\ WF_vars(Welcome)
    /\ WF_vars(ReadError)
    /\ WF_vars(ProducerStep)
    /\ WF_vars(ProducerSend)
    /\ WF_vars(ProducerPanic)
    /\ WF_vars(ProducerClose)
    /\ WF_vars(LoopWrite)
    /\ WF_vars(LoopReturn)

FairSpec == Spec /\ Fairness

\* ----------------------------------------------------------- parser steps
\* parser.next and parser.login at work on one LOGIN command line
ServerInit ==
    /\ listener = unencryptedLevel
    /\ sess = createSession /\ pc = "welcome" /\ ncmds = 0
    /\ cmd = Command("none", "", "", "", <<>>)
    /\ readFrom = 0 /\ pre = createSession /\ todo = <<>>
    /\ chOpen = FALSE /\ alive = 0 /\ cur = partial /\ sent = <<>>
    /\ keepOpen = TRUE /\ newBuffers = 0 /\ bufin = 0
    /\ bufout = NewWriter(0) /\ lexReader = 0 /\ wire = <<>>
    /\ connOpen = TRUE /\ clientGone = FALSE /\ crashed = FALSE
    /\ calls = NoCalls /\ fault = "none" /\ fatal = partial

LexInit ==
    /\ ServerInit
    /\ \E in \in LexInputs :
         lx = [LexIdle EXCEPT !.pc = "start", !.input = in,
                              !.l = createLexer(OctetsOfInput(in))]

\* One expectString of the parser: the token goes to `field`, a parseError
\* ends the parse
LexStep(from, to, field, res) ==
    /\ lx.pc = from
    /\ lx' = IF res.l.err
             THEN [lx EXCEPT !.pc = "failed", !.l = res.l]
             ELSE [lx EXCEPT !.pc = to, !.l = res.l, ![field] = res.tok]
    /\ UNCHANGED serverVars

\* parser.next: p.lexer.newLine()
LexNewLine ==
    /\ lx.pc = "start"
    /\ LET l1 == newLine(lx.l) IN
       lx' = [lx EXCEPT !.pc = IF l1.err THEN "failed" ELSE "tag", !.l = l1]
    /\ UNCHANGED serverVars

\* parser.next: tag := p.expectString(p.lexer.tag)
LexTag == LexStep("tag", "command", "tag", expectString(tag(lx.l)))

\* The cases of the switch in parser.next
ParserCommands ==
    {"noop", "capability", "starttls", "login", "logout", "select", "delete",
     "list", "fetch"}

\* parser.next: rawCommand := p.expectString(p.lexer.astring) and the switch
\* on its lowercase value; only login reads arguments here
LexCommand ==
    /\ lx.pc = "command"
    /\ LET res == expectString(astring(lx.l))
           lcCommand == Join(ToLower(res.tok), "")
           kind == IF lcCommand \in ParserCommands THEN lcCommand ELSE "unknown"
       IN lx' = IF res.l.err
                THEN [lx EXCEPT !.pc = "failed", !.l = res.l]
                ELSE [lx EXCEPT !.pc = IF kind = "login" THEN "userId" ELSE "done",
                                !.l = res.l, !.command = res.tok, !.kind = kind]
    /\ UNCHANGED serverVars

\* parser.login: userId := p.expectString(p.lexer.astring)
LexUserId == LexStep("userId", "password", "userId", expectString(astring(lx.l)))

\* parser.login: password := p.expectString(p.lexer.astring)
LexPassword ==
    LexStep("password", "done", "password", expectString(astring(lx.l)))

\* parser.unknown and the execute of the command it built
LexUnknown ==
    /\ lx.pc = "done" /\ lx.kind = "unknown"
    /\ LET c == [Command("unknown", "", "", "", <<>>)
                   EXCEPT !.tag = Join(lx.tag, ""), !.cmd = Join(lx.command, "")]
       IN lx' = [lx EXCEPT !.pc = "executed", !.todo = unknown_execute(c, sess)]
    /\ UNCHANGED serverVars

LexNext ==
    \/ LexNewLine \/ LexTag \/ LexCommand \/ LexUserId \/ LexPassword
    \/ LexUnknown

LexSpec == LexInit /\ [][LexNext]_vars

\* ------------------------------------------------------- astring on a line
\* TestAstring: a lexer on one input, newLine, then one call of astring
AstringOctets ==
    {"a", "b", "[", "]", "(", ")", "%", "*", backslash, leftCurly,
     doubleQuote, space, tab, del}

RECURSIVE LinesUpTo(_)
LinesUpTo(k) ==
    IF k = 0 THEN {<<>>}
    ELSE LinesUpTo(k - 1)
         \cup {Append(p, c) : p \in {q \in LinesUpTo(k - 1) : Len(q) = k - 1},
                              c \in AstringOctets}

\* The ways an input ends: CRLF, a lone LF, or nothing after the last octet
LineEnds == {<<cr, lf>>, <<lf>>, <<>>}

AstringInputs ==
    {[body |-> b, eol |-> e] : b \in LinesUpTo(MaxBare), e \in LineEnds}

AstringInit ==
    /\ ServerInit
    /\ \E in \in AstringInputs :
         lx = [pc |-> "start", input |-> in, l |-> createLexer(in.body \o in.eol),
               ok |-> FALSE, tok |-> <<>>]

\* l.newLine()
AstringNewLine ==
    /\ lx.pc = "start"
    /\ LET l1 == newLine(lx.l) IN
       lx' = [lx EXCEPT !.pc = IF l1.err THEN "noLine" ELSE "line", !.l = l1]
    /\ UNCHANGED serverVars

\* ok, tk := l.astring()
AstringCall ==
    /\ lx.pc = "line"
    /\ LET res == astring(lx.l) IN
       lx' = [lx EXCEPT !.pc = IF res.l.err THEN "failed" ELSE "done",
                        !.l = res.l, !.ok = res.ok, !.tok = res.tok]
    /\ UNCHANGED serverVars

AstringNext == AstringNewLine \/ AstringCall

AstringSpec == AstringInit /\ [][AstringNext]_vars

\* ------------------------------------------------------------ session.list
\* A mailbox path is a sequence of names; a mailstore is the set of the paths
\* of its mailboxes, every mailbox below the root having its parent.
Names == <<"a", "b">>

RECURSIVE PathsUpTo(_)
PathsUpTo(k) ==
    IF k = 0 THEN {<<>>}
    ELSE PathsUpTo(k - 1)
         \cup {Append(p, Names[i]) :
                 p \in {q \in PathsUpTo(k - 1) : Len(q) = k - 1},
                 i \in DOMAIN Names}

Mailstores ==
    {t \in SUBSET (PathsUpTo(MaxDepth) \ {<<>>}) :
       \A p \in t : Len(p) > 1 => SubSeq(p, 1, Len(p) - 1) \in t}

\* A Mailbox of the provider (nil: the nil interface value)
ProviderMailbox(path) == [nil |-> FALSE, path |-> path]
NilProviderMailbox == [nil |-> TRUE, path |-> <<>>]

\* Mailstore.Mailbox(path): nil if the mailbox does not exist
StoreMailbox(store, path) ==
    IF path \in store THEN ProviderMailbox(path) ELSE NilProviderMailbox

\* Mailstore.Mailboxes(path): the mailboxes at the given path
StoreMailboxes(store, path) ==
    LET at == [i \in DOMAIN Names |-> Append(path, Names[i])]
        there == SelectSeq(at, LAMBDA p : p \in store)
    IN [i \in DOMAIN there |-> ProviderMailbox(there[i])]

\* getMailbox on a given mailstore
getMailboxIn(store, path, perr) ==
    IF perr = "Mailbox"
    THEN [err |-> TRUE, mbox |-> NilMailbox]
    ELSE [err |-> FALSE, mbox |-> wrapMailbox(StoreMailbox(store, path))]

\* getMailboxes
getMailboxes(store, path, perr) ==
    IF perr = "Mailboxes"
    THEN [err |-> TRUE, all |-> <<>>]
    ELSE LET mboxes == StoreMailboxes(store, path) IN
         [err |-> FALSE, all |-> [i \in DOMAIN mboxes |-> wrapMailbox(mboxes[i])]]

\* What depthFirstMailboxes returns: ret and err, or the call did not return
\* (overflow: the stack ran out; panic: a method call on a nil Mailbox).
\* err is the function's own variable err, which no statement assigns: the
\* switch cases declare their own.
ListOutcome(ret, overflow, panicked) ==
    [ret |-> ret, err |-> FALSE, overflow |-> overflow, panic |-> panicked]

RECURSIVE depthFirstMailboxes(_, _, _, _, _, _)
RECURSIVE eachMailbox(_, _, _, _, _, _)
\* depthFirstMailboxes: the loop "for _, mbox := range all"
eachMailbox(store, ret, all, pattern, perr, depth) ==
    IF all = <<>> THEN ListOutcome(ret, FALSE, FALSE)
    ELSE LET mbox == Head(all)
             r == depthFirstMailboxes(store, Append(ret, mbox),
                                      mbox.provider.path, pattern, perr, depth)
         IN IF r.overflow \/ r.panic \/ r.err THEN r
            ELSE eachMailbox(store, r.ret, Tail(all), pattern, perr, depth)

\* session.depthFirstMailboxes; depth: the calls the stack still has room for
depthFirstMailboxes(store, results, path, pattern, perr, depth) ==
    IF depth = 0 THEN ListOutcome(results, TRUE, FALSE)
    ELSE IF Len(pattern) = 0 \/ Len(path) > 20
    THEN ListOutcome(results, FALSE, FALSE)
    ELSE LET pat == pattern[1] IN
         CASE pat = "%" ->
                LET g == getMailboxes(store, path, perr) IN
                IF g.err THEN ListOutcome(results, FALSE, FALSE)
                ELSE eachMailbox(store, results, g.all, Tail(pattern), perr,
                                 depth - 1)
           [] pat = "*" ->
                LET g == getMailboxes(store, path, perr) IN
                IF g.err THEN ListOutcome(results, FALSE, FALSE)
                ELSE eachMailbox(store, results, g.all, pattern, perr, depth - 1)
           [] OTHER ->
                LET g == getMailboxIn(store, path, perr) IN
                IF g.err THEN ListOutcome(results, FALSE, FALSE)
                ELSE IF g.mbox.provider.nil
                THEN ListOutcome(Append(results, g.mbox), FALSE, TRUE)
                ELSE depthFirstMailboxes(store, Append(results, g.mbox),
                                         g.mbox.provider.path, pattern, perr,
                                         depth - 1)

\* The index of the first wildcard of the pattern (0: none)
RECURSIVE FirstWildcard(_, _)
FirstWildcard(pattern, i) ==
    IF i > Len(pattern) THEN 0
    ELSE IF pattern[i] \in {"%", "*"} THEN i
    ELSE FirstWildcard(pattern, i + 1)

\* session.list
session_list(store, reference, pattern, perr) ==
    LET wildcard == FirstWildcard(pattern, 1)
        path == reference \o (IF wildcard = 0 THEN pattern
                              ELSE SubSeq(pattern, 1, wildcard - 1))
    IN IF wildcard = 0
       THEN LET g == getMailboxIn(store, path, perr) IN
            IF g.err THEN [ListOutcome(<<>>, FALSE, FALSE) EXCEPT !.err = TRUE]
            ELSE ListOutcome(<<g.mbox>>, FALSE, FALSE)
       ELSE depthFirstMailboxes(store, <<>>, path,
                                SubSeq(pattern, wildcard, Len(pattern)), perr,
                                MaxRecursion)

\* The patterns and references a client sends, the provider call that fails
RECURSIVE PatternsUpTo(_)
PatternsUpTo(k) ==
    IF k = 0 THEN {<<>>}
    ELSE PatternsUpTo(k - 1)
         \cup {Append(p, d) : p \in {q \in PatternsUpTo(k - 1) : Len(q) = k - 1},
                              d \in {"%", "*", "a"}}

ListInputs ==
    {[store |-> t, reference |-> r, pattern |-> p, fault |-> f] :
       t \in Mailstores, r \in {<<>>, <<"a">>}, p \in PatternsUpTo(MaxPattern),
       f \in {"none", "Mailbox", "Mailboxes"}}

ListInit ==
    /\ ServerInit
    /\ \E in \in ListInputs :
         lx = [pc |-> "start", input |-> in, out |-> ListOutcome(<<>>, FALSE, FALSE)]

\* mboxes, err := sess.list(ref, mbox)
ListCall ==
    /\ lx.pc = "start"
    /\ lx' = [lx EXCEPT !.pc = "done",
                        !.out = session_list(lx.input.store, lx.input.reference,
                                             lx.input.pattern, lx.input.fault)]
    /\ UNCHANGED serverVars

ListNext == ListCall

ListSpec == ListInit /\ [][ListNext]_vars

\* -------------------------------------------------- mailbox management
\* CREATE, DELETE, RENAME, SUBSCRIBE and UNSUBSCRIBE go to the two-argument
\* mailstore (owner, path).  MgmtSpec runs one of these handlers on a session
\* and a store; a mailbox name is a sequence of octets, as in the lexer.
pathDelimiter == "/"

\* strings.Split(name, string(pathDelimiter))
RECURSIVE SplitFrom(_, _)
SplitFrom(name, segment) ==
    IF name = <<>> THEN <<segment>>
    ELSE IF Head(name) = pathDelimiter
         THEN <<segment>> \o SplitFrom(Tail(name), <<>>)
         ELSE SplitFrom(Tail(name), Append(segment, Head(name)))

Split(name) == SplitFrom(name, <<>>)

\* strings.Join(path, "/")
RECURSIVE JoinPath(_)
JoinPath(path) ==
    IF path = <<>> THEN <<>>
    ELSE IF Len(path) = 1 THEN path[1]
    ELSE path[1] \o <<pathDelimiter>> \o JoinPath(Tail(path))

\* strings.EqualFold on Ascii names
EqualFold(s, t) == ToLower(s) = ToLower(t)

\* bytes.HasPrefix
HasPrefix(k, prefix) ==
    Len(k) >= Len(prefix) /\ SubSeq(k, 1, Len(prefix)) = prefix

INBOX == <<"I", "N", "B", "O", "X">>

\* The users bucket holds one owner; a store is the set of that owner's
\* mailbox buckets, each keyed by its joined path.
StoreOwner == "test"

StoreKeys == {<<"a">>, <<"b">>, <<"a", "/", "b">>, <<"b", "/", "b">>}

MailboxNames == StoreKeys \cup {INBOX, <<"i", "n", "b", "o", "x">>}

\* boltMailbox.Exists: no owner bucket, no mailbox
Exists(store, owner, path) == owner = StoreOwner /\ JoinPath(path) \in store

\* BoltMailstore.Mailbox: (box, err); a missing mailbox is an error and no box
Mailstore_Mailbox(store, owner, path) ==
    IF Exists(store, owner, path)
    THEN [err |-> FALSE, isNil |-> FALSE, owner |-> owner, path |-> path]
    ELSE [err |-> TRUE, isNil |-> TRUE, owner |-> owner, path |-> path]

\* bytes.Replace(k, prefix, npath, 1) on a key that starts with prefix
newKey(k, prefix, npath) == npath \o SubSeq(k, Len(prefix) + 1, Len(k))

\* boltMailbox.Rename: every bucket whose key starts with the old path moves
\* to the key with the new path in front; moveBucket fails when the new key is
\* taken (CreateBucket), and a failed Update leaves the store as it was.  The
\* cursor is taken to visit the keys present when the loop starts.
Rename(store, box, newPath, perr) ==
    LET npath == JoinPath(newPath)
        opath == JoinPath(box.path)
        moved == {k \in store : HasPrefix(k, opath)}
        taken == \E k \in moved : newKey(k, opath, npath) \in store \ moved
    IN  IF box.owner # StoreOwner \/ perr \/ taken
        THEN [err |-> TRUE, store |-> store]
        ELSE [err |-> FALSE,
              store |-> (store \ moved)
                          \cup {newKey(k, opath, npath) : k \in moved}]

\* What one handler did: the responses it put on the channel, the calls it
\* made on the mailstore and its mailboxes, and the store afterwards.
Handled(responses, mcalls, store) ==
    [sent |-> responses, calls |-> mcalls, store |-> store]

\* create.execute.  NewMailbox is not part of the source tree: only its call
\* and its result (nil, a CreateError, another error) are kept.
create_execute(c, s, store, perr) ==
    LET path == Split(c.mailbox)
        mcalls == << <<"NewMailbox", s.user, path>> >>
    IN  IF perr = "typed"
        THEN Handled(<<no(c.tag, "create failure: can't create mailbox with that name")>>,
                     mcalls, store)
        ELSE IF perr = "untyped"
        THEN Handled(<<bad(c.tag, "Unknown error creating mailbox")>>, mcalls, store)
        ELSE Handled(<<ok(c.tag, "CREATE completed")>>, mcalls, store)

\* delete.execute.  DeleteMailbox is not part of the source tree either.
delete_execute(c, s, store, perr) ==
    LET path == Split(c.mailbox)
        mcalls == << <<"DeleteMailbox", s.user, path>> >>
    IN  IF EqualFold(c.mailbox, INBOX)
        THEN Handled(<<no(c.tag, "cannot delete INBOX")>>, <<>>, store)
        ELSE IF perr = "typed"
        THEN Handled(<<no(c.tag, "delete failure: can't delete mailbox with that name")>>,
                     mcalls, store)
        ELSE IF perr = "untyped"
        THEN Handled(<<bad(c.tag, "unknown error occured")>>, mcalls, store)
        ELSE Handled(<<ok(c.tag, "DELETE Completed")>>, mcalls, store)

\* rename.execute
rename_execute(c, s, store, perr) ==
    LET oldPath == Split(c.oldname)
        newPath == Split(c.newname)
        box == Mailstore_Mailbox(store, s.user, oldPath)
        newBox == Mailstore_Mailbox(store, s.user, newPath)
        renamed == Rename(store, box, newPath, perr # "none")
        lookOld == <<"Mailbox", s.user, oldPath>>
        lookNew == <<"Mailbox", s.user, newPath>>
    IN  IF box.err
        THEN Handled(<<no(c.tag, "mailbox not found")>>, <<lookOld>>, store)
        ELSE IF ~newBox.isNil
        THEN Handled(<<no(c.tag, "name already taken")>>, <<lookOld, lookNew>>, store)
        ELSE IF renamed.err
        THEN Handled(<<no(c.tag, "error occured while renaming")>>,
                     <<lookOld, lookNew, <<"Rename", s.user, newPath>> >>, store)
        ELSE Handled(<<ok(c.tag, "RENAME Completed")>>,
                     <<lookOld, lookNew, <<"Rename", s.user, newPath>> >>,
                     renamed.store)

\* subscribe.execute and unsubscribe.execute: commandName is SUBSCRIBE or
\* UNSUBSCRIBE, the call on the box is Subscribe or Unsubscribe
subscribe_execute(c, s, store, perr, commandName, method) ==
    LET path == Split(c.mailbox)
        box == Mailstore_Mailbox(store, s.user, path)
        look == <<"Mailbox", s.user, path>>
    IN  IF s.st = notAuthenticated
        THEN Handled(<<mustAuthenticate(c.tag, commandName)>>, <<>>, store)
        ELSE IF box.err
        THEN Handled(<<no(c.tag, commandName \o " failed; mailbox not found")>>,
                     <<look>>, store)
        ELSE IF perr # "none"
        THEN Handled(<<no(c.tag, commandName \o " failed")>>,
                     <<look, <<method, s.user, path>> >>, store)
        ELSE Handled(<<ok(c.tag, commandName \o " Completed")>>,
                     <<look, <<method, s.user, path>> >>, store)

MgmtKinds == {"create", "delete", "rename", "subscribe", "unsubscribe"}

\* The session a handler can meet: a user exactly when logged in
MgmtSessions ==
    {[createSession EXCEPT !.st = st,
                           !.user = IF st = notAuthenticated THEN "" ELSE StoreOwner] :
       st \in {notAuthenticated, authenticated, selected}}

MgmtInputs ==
    {[c |-> [kind |-> k, tag |-> "a1", mailbox |-> m, oldname |-> m, newname |-> n],
      s |-> s, store |-> t, fault |-> f] :
       k \in MgmtKinds, m \in MailboxNames, n \in MailboxNames,
       s \in MgmtSessions, t \in SUBSET StoreKeys,
       f \in {"none", "typed", "untyped"}}

MgmtInit ==
    /\ ServerInit
    /\ \E in \in MgmtInputs :
         lx = [pc |-> "start", input |-> in,
               out |-> Handled(<<>>, <<>>, in.store)]

\* command.execute(sess, out) for the command drawn
MgmtExecute ==
    /\ lx.pc = "start"
    /\ LET in == lx.input
           c == in.c
       IN lx' = [lx EXCEPT !.pc = "done",
                    !.out = CASE c.kind = "create" ->
                                   create_execute(c, in.s, in.store, in.fault)
                              [] c.kind = "delete" ->
                                   delete_execute(c, in.s, in.store, in.fault)
                              [] c.kind = "rename" ->
                                   rename_execute(c, in.s, in.store, in.fault)
                              [] c.kind = "subscribe" ->
                                   subscribe_execute(c, in.s, in.store, in.fault,
                                                     "SUBSCRIBE", "Subscribe")
                              [] OTHER ->
                                   subscribe_execute(c, in.s, in.store, in.fault,
                                                     "UNSUBSCRIBE", "Unsubscribe")]
    /\ UNCHANGED serverVars

MgmtNext == MgmtExecute

MgmtSpec == MgmtInit /\ [][MgmtNext]_vars

\* --------------------------------------------------------- LIST and LSUB
\* LsubSpec hands one line of arguments, reference SP pattern, to LIST and then
\* to LSUB, over a mailstore with subscriptions, in an authenticated session.
listMailboxExceptionsChar == {space, "(", ")", "]", backslash, leftCurly}

\* lexer.listMailbox
listMailbox(l) == generalString(skipSpace(l), listMailboxExceptionsChar)

\* pathToSlice: split at the delimiter, drop an empty first and an empty last
\* segment; the segments become the names session.list compares
pathToSlice(path) ==
    LET ret == Split(path)
        front == IF ret[1] = <<>> THEN Tail(ret) ELSE ret
        back == IF front # <<>> /\ front[Len(front)] = <<>>
                THEN SubSeq(front, 1, Len(front) - 1) ELSE front
    IN  [i \in DOMAIN back |-> Join(back[i], "")]

\* createList and createLsub: (reference, pattern), err: a parseError panic.
\* createList reads the pattern with listMailbox, createLsub with astring.
createList(l) ==
    LET r == expectString(astring(l))
        m == expectString(listMailbox(r.l))
    IN  [err |-> r.l.err \/ m.l.err,
         reference |-> IF EqualFold(r.tok, INBOX) THEN INBOX ELSE r.tok,
         mboxPattern |-> m.tok]

createLsub(l) ==
    LET r == expectString(astring(l))
        m == expectString(astring(r.l))
    IN  [err |-> r.l.err \/ m.l.err, refname |-> r.tok, mailbox |-> m.tok]

\* Mailbox.Subscribed and Mailbox.SubscribedDescendant over the set of the
\* subscribed paths
Subscribed(subs, path) == path \in subs
SubscribedDescendant(subs, path) ==
    \E q \in subs : Len(q) > Len(path) /\ SubSeq(q, 1, Len(path)) = path

\* joinMailboxFlags: the mailboxes of these stores carry no flag
joinMailboxFlags(m) == ""

\* What a LIST or LSUB command came to: parsed, the final response with its
\* lines as (flags, path), or returned: FALSE when the handler did not return
Listed(parsed, returned, condition, lines) ==
    [parsed |-> parsed, returned |-> returned, condition |-> condition,
     lines |-> lines]

\* list.execute
list_execute(c, s, store) ==
    IF s.st = notAuthenticated THEN Listed(TRUE, TRUE, "BAD", <<>>)
    ELSE IF c.mboxPattern = <<>>
    THEN Listed(TRUE, TRUE, "OK", << [flags |-> "", path |-> pathToSlice(c.reference)] >>)
    ELSE LET r == session_list(store, pathToSlice(c.reference),
                               pathToSlice(c.mboxPattern), "none")
         IN  IF r.overflow \/ r.panic THEN Listed(TRUE, FALSE, "", <<>>)
             ELSE IF r.err THEN Listed(TRUE, TRUE, "NO", <<>>)
             ELSE Listed(TRUE, TRUE, "OK",
                         [i \in DOMAIN r.ret |->
                            [flags |-> joinMailboxFlags(r.ret[i]),
                             path |-> r.ret[i].provider.path]])

\* lsub.execute, the loop over the mailboxes session.list returned
RECURSIVE lsubLines(_, _)
lsubLines(mboxes, subs) ==
    IF mboxes = <<>> THEN <<>>
    ELSE LET mbox == Head(mboxes)
             path == mbox.provider.path
         IN  (IF Subscribed(subs, path)
              THEN << [flags |-> joinMailboxFlags(mbox), path |-> path] >>
              ELSE IF SubscribedDescendant(subs, path)
              THEN << [flags |-> "\\Noselect", path |-> path] >>
              ELSE <<>>)
             \o lsubLines(Tail(mboxes), subs)

\* lsub.execute
lsub_execute(c, s, store, subs) ==
    LET r == session_list(store, pathToSlice(c.refname), pathToSlice(c.mailbox),
                          "none")
    IN  IF r.overflow \/ r.panic THEN Listed(TRUE, FALSE, "", <<>>)
        ELSE IF r.err THEN Listed(TRUE, TRUE, "NO", <<>>)
        ELSE Listed(TRUE, TRUE, "OK", lsubLines(r.ret, subs))

\* An argument as the client writes it: bare or between double quotes
Argument(path, quoted) ==
    LET text == JoinPath([i \in DOMAIN path |-> <<path[i]>>]) IN
    IF quoted THEN <<doubleQuote>> \o text \o <<doubleQuote>> ELSE text

NotListed == Listed(FALSE, FALSE, "", <<>>)

\* The inputs: a mailstore, the subscribed ones of its mailboxes, a reference,
\* a pattern and whether the client quotes the pattern
LsubInit ==
    /\ ServerInit
    /\ \E t \in Mailstores, r \in {<<>>, <<"a">>}, p \in PatternsUpTo(MaxPattern),
          q \in BOOLEAN :
         \E u \in SUBSET t :
           lx = [pc |-> "start",
                 input |-> [store |-> t, subs |-> u, reference |-> r,
                            pattern |-> p, quoted |-> q],
                 list |-> NotListed, lsub |-> NotListed,
                 l |-> newLine(createLexer(Argument(r, TRUE) \o <<space>>
                                           \o Argument(p, q) \o <<cr, lf>>))]

\* parser.next on "LIST" followed by list.execute
ListCommand ==
    /\ lx.pc = "start"
    /\ LET c == createList(lx.l) IN
       lx' = [lx EXCEPT !.pc = "listed",
                 !.list = IF c.err THEN NotListed
                          ELSE list_execute(c, [createSession EXCEPT !.st = authenticated],
                                            lx.input.store)]
    /\ UNCHANGED serverVars

\* parser.next on "LSUB" followed by lsub.execute
LsubCommand ==
    /\ lx.pc = "listed"
    /\ LET c == createLsub(lx.l) IN
       lx' = [lx EXCEPT !.pc = "done",
                 !.lsub = IF c.err THEN NotListed
                          ELSE lsub_execute(c, [createSession EXCEPT !.st = authenticated],
                                            lx.input.store, lx.input.subs)]
    /\ UNCHANGED serverVars

LsubSpec == LsubInit /\ [][ListCommand \/ LsubCommand]_vars

\* ------------------------------------------------------ token recognisers
\* TokenSpec puts one line before the lexer and calls recognisers and parser
\* helpers on it, one after the other, each from where the last one stopped.
MaxTokens == 3

Letters == {UpperCase[i] : i \in DOMAIN UpperCase} \cup {LowerCase[i] : i \in DOMAIN LowerCase}

\* A 32-bit magnitude is kept as two 16-bit halves, hi * 65536 + lo; over:
\* the digits read so far no longer fit into 32 bits.
half == 65536

RECURSIVE magnitude(_)
magnitude(digits) ==
    IF digits = <<>> THEN [hi |-> 0, lo |-> 0, over |-> FALSE]
    ELSE LET m == magnitude(SubSeq(digits, 1, Len(digits) - 1))
             low == m.lo * 10 + DigitValue(digits[Len(digits)])
             high == m.hi * 10 + (low \div half)
         IN  IF m.over \/ high >= half THEN [hi |-> 0, lo |-> 0, over |-> TRUE]
             ELSE [hi |-> high, lo |-> low % half, over |-> FALSE]

\* strconv.ParseUint(s, 10, 32) of the octets nonZeroInteger collects: the
\* uint32 as its two halves
ParseUint32(buffer) ==
    LET syntax == buffer = <<>> \/ \E i \in DOMAIN buffer : buffer[i] \notin Digits
        m == IF syntax THEN magnitude(<<>>) ELSE magnitude(buffer)
    IN  [err |-> syntax \/ m.over, num |-> [hi |-> m.hi, lo |-> m.lo]]

\* strconv.ParseInt(s, 10, 32) of the octets integer collects: digits with at
\* most one sign in front, the value between -2^31 and 2^31 - 1
ParseInt32(buffer) ==
    LET negative == buffer # <<>> /\ buffer[1] = "-"
        digits == IF negative THEN Tail(buffer) ELSE buffer
        syntax == digits = <<>> \/ \E i \in DOMAIN digits : digits[i] \notin Digits
        m == IF syntax THEN magnitude(<<>>) ELSE magnitude(digits)
        range == \/ m.over
                 \/ m.hi > half \div 2
                 \/ m.hi = half \div 2 /\ ~(negative /\ m.lo = 0)
    IN  [err |-> syntax \/ range,
         num |-> IF syntax \/ range THEN 0
                 ELSE IF negative THEN (0 - m.hi) * half - m.lo
                 ELSE m.hi * half + m.lo]

\* The conversion int32(n) of a uint32: the same 32 bits read as signed
int32(n) ==
    IF n.hi >= half \div 2 THEN (n.hi - half) * half + n.lo ELSE n.hi * half + n.lo

\* The loop of integer, nonZeroInteger, asciiWord and dottedWord: collect the
\* octets of the set, consuming each
RECURSIVE collect(_, _, _)
collect(l, octets, buffer) ==
    IF current(l) \in octets
    THEN collect(consume(l), octets, Append(buffer, current(l)))
    ELSE LexResult(buffer # <<>>, buffer, l)

\* lexer.integer
integer(l) ==
    LET r == collect(l, Digits \cup {"-"}, <<>>)
        p == ParseInt32(r.tok)
    IN  IF ~r.ok \/ p.err THEN LexResult(FALSE, 0, r.l) ELSE LexResult(TRUE, p.num, r.l)

\* lexer.nonZeroInteger
nonZeroInteger(l) ==
    LET r == collect(l, Digits, <<>>)
        p == ParseUint32(r.tok)
    IN  IF ~r.ok \/ p.err THEN LexResult(FALSE, [hi |-> 0, lo |-> 0], r.l)
        ELSE LexResult(TRUE, p.num, r.l)

\* lexer.asciiWord: Ascii letters
asciiWord(l) == collect(l, Letters, <<>>)

\* lexer.dottedWord: upper case letters, the digits above zero and the dot
dottedWord(l) ==
    collect(l, {UpperCase[i] : i \in DOMAIN UpperCase} \cup (Digits \ {"0"}) \cup {"."},
            <<>>)

\* The words fetchMacro, fetchAttachment and partSpecifier know
fetchMacros == {"all", "full", "fast"}
fetchAttachments ==
    {"envelope", "flags", "internaldate", "rfc822.header", "rfc822.size",
     "rfc822.text", "body", "bodystructure", "uid", "body.peek"}
partSpecifiers == {"header", "header.fields", "header.fields.not", "text"}

\* fetchMacro, fetchAttachment, partSpecifier: a word of the given kind whose
\* lower case form is one of the known ones
knownWord(r, known) ==
    LET lcWord == Join(ToLower(r.tok), "") IN
    IF r.ok /\ lcWord \in known THEN LexResult(TRUE, lcWord, r.l)
    ELSE LexResult(FALSE, "", r.l)

fetchMacro(l) == knownWord(asciiWord(skipSpace(l)), fetchMacros)
fetchAttachment(l) == knownWord(dottedWord(skipSpace(l)), fetchAttachments)
partSpecifier(l) == knownWord(dottedWord(skipSpace(l)), partSpecifiers)

\* lexer.mime
mime(l) ==
    LET r == asciiWord(skipSpace(l)) IN
    LexResult(r.ok /\ r.tok = <<"M", "I", "M", "E">>, "", r.l)

\* lexer.singleChar
singleChar(l, ch) ==
    IF current(l) = ch THEN LexResult(TRUE, ch, consume(l)) ELSE LexResult(FALSE, ch, l)

\* leftParen, rightParen, lessThan, greaterThan, leftBracket, rightBracket, dot
singleChars ==
    [leftParen |-> "(", rightParen |-> ")", lessThan |-> "<", greaterThan |-> ">",
     leftBracket |-> "[", rightBracket |-> "]", dot |-> "."]

\* The recognisers by name
Recognisers ==
    {"astring", "tag", "listMailbox", "integer", "nonZeroInteger", "fetchMacro",
     "fetchAttachment", "partSpecifier", "mime"} \cup DOMAIN singleChars

recognise(name, l) ==
    CASE name = "astring" -> astring(l)
      [] name = "tag" -> tag(l)
      [] name = "listMailbox" -> listMailbox(l)
      [] name = "integer" -> integer(l)
      [] name = "nonZeroInteger" -> nonZeroInteger(l)
      [] name = "fetchMacro" -> fetchMacro(l)
      [] name = "fetchAttachment" -> fetchAttachment(l)
      [] name = "partSpecifier" -> partSpecifier(l)
      [] name = "mime" -> mime(l)
      [] OTHER -> singleChar(l, singleChars[name])

\* parser.expectSequenceNumber
expectSequenceNumber(l) ==
    LET n == nonZeroInteger(l) IN
    IF n.ok THEN LexResult(TRUE, int32(n.tok), n.l)
    ELSE LET w == singleChar(n.l, "*") IN
         IF w.ok THEN LexResult(TRUE, largestSequenceNumber, w.l)
         ELSE LexResult(FALSE, 0, [w.l EXCEPT !.err = TRUE])

\* parser.expectSequenceSet: the ranges as (start, end), end = <<>> when absent
RECURSIVE expectSequenceSet(_, _)
expectSequenceSet(l, ret) ==
    LET start == expectSequenceNumber(l)
        isRange == singleChar(start.l, ":")
        end == expectSequenceNumber(isRange.l)
        after == IF isRange.ok THEN end.l ELSE isRange.l
        item == [start |-> start.tok,
                 end |-> IF isRange.ok THEN <<end.tok>> ELSE <<>>]
        more == singleChar(after, ",")
    IN  IF ~start.ok THEN LexResult(FALSE, ret, start.l)
        ELSE IF isRange.ok /\ ~end.ok THEN LexResult(FALSE, ret, end.l)
        ELSE IF more.ok THEN expectSequenceSet(more.l, Append(ret, item))
        ELSE LexResult(TRUE, Append(ret, item), more.l)

\* parser.optionalFetchPartial: ok with <<>> when there is no partial, ok with
\* <<(fromOctet, length)>> for a partial, a parseError panic otherwise
optionalFetchPartial(l) ==
    LET lt == singleChar(l, "<")
        n == integer(lt.l)
        nz == nonZeroInteger(n.l)
        gt == singleChar(nz.l, ">")
    IN  IF ~lt.ok THEN LexResult(TRUE, <<>>, lt.l)
        ELSE IF ~n.ok THEN LexResult(FALSE, <<>>, [n.l EXCEPT !.err = TRUE])
        ELSE IF ~nz.ok THEN LexResult(FALSE, <<>>, [nz.l EXCEPT !.err = TRUE])
        ELSE IF ~gt.ok THEN LexResult(FALSE, <<>>, [gt.l EXCEPT !.err = TRUE])
        ELSE LexResult(TRUE, << [fromOctet |-> n.tok, length |-> nz.tok] >>, gt.l)

\* The lines put before the lexer
TokenLines ==
    {<<>>, <<"0">>, <<"7">>, <<"0", "7">>, <<"-">>, <<"-", "5">>, <<"5", "-">>,
     <<"*">>, <<"%">>, <<"1", ":", "*">>, <<"1", ":", "0">>, <<"2", ",", "4", ":", "7">>,
     <<"1", ",">>, <<"0", ":", "3">>,
     <<"2", "1", "4", "7", "4", "8", "3", "6", "4", "7">>,
     <<"2", "1", "4", "7", "4", "8", "3", "6", "4", "8">>,
     <<"4", "2", "9", "4", "9", "6", "7", "2", "9", "5">>,
     <<"4", "2", "9", "4", "9", "6", "7", "2", "9", "6">>,
     <<"A", "L", "L">>, <<"f", "a", "s", "t">>, <<"x", "y", "z">>,
     <<"F", "L", "A", "G", "S">>, <<"f", "l", "a", "g", "s">>,
     <<"B", "O", "D", "Y", ".", "P", "E", "E", "K">>, <<"U", "I", "D", "0">>,
     <<"T", "E", "X", "T">>, <<"M", "I", "M", "E">>, <<"m", "i", "m", "e">>,
     <<" ", "7">>, <<" ", "(">>, <<"(", ")">>, <<"[", "]">>, <<".">>,
     <<"<", "0", ".", "1", "0", ">">>, <<"<", "0", "1", "0", ">">>,
     <<"<", "5", ">">>, <<"<", ".", "1", ">">>, <<"<", "0", ".", "0", ">">>,
     <<"<", "-", "1", ".", "2", ">">>,
     <<"B", "O", "D", "Y", "[", "]", "<", "0", ".", "1", "0", ">">>,
     <<"a", "]">>, <<"\"", "a", "\"">>, <<"{", "1", "}">>}

TokenInit ==
    /\ ServerInit
    /\ \E line \in TokenLines :
         lx = [pc |-> "ready", l |-> newLine(createLexer(line \o <<cr, lf>>)),
               called |-> "", before |-> 0, ok |-> FALSE, value |-> <<>>, n |-> 0]

\* What a call leaves behind: its name, the cursor before it, whether it
\* succeeded and, for a parser helper, what it returned
TokenCalled(name, r, final) ==
    [pc |-> IF final \/ r.l.err THEN "parsed" ELSE "ready", l |-> r.l,
     called |-> name, before |-> lx.l.idx, ok |-> r.ok,
     value |-> IF final THEN r.tok ELSE <<>>, n |-> lx.n + 1]

\* ok, value := p.lexer.<recogniser>()
Recognise ==
    /\ lx.pc = "ready" /\ lx.n < MaxTokens
    /\ \E name \in Recognisers : lx' = TokenCalled(name, recognise(name, lx.l), FALSE)
    /\ UNCHANGED serverVars

\* ret.sequenceSet = p.expectSequenceSet()
ParseSequenceSet ==
    /\ lx.pc = "ready"
    /\ lx' = TokenCalled("expectSequenceSet", expectSequenceSet(lx.l, <<>>), TRUE)
    /\ UNCHANGED serverVars

\* partial := p.optionalFetchPartial()
ParseFetchPartial ==
    /\ lx.pc = "ready"
    /\ lx' = TokenCalled("optionalFetchPartial", optionalFetchPartial(lx.l), TRUE)
    /\ UNCHANGED serverVars

TokenSpec == TokenInit /\ [][Recognise \/ ParseSequenceSet \/ ParseFetchPartial]_vars

\* ------------------------------------------------------ building a response
\* PutSpec builds one partial response by put, putField and putLine calls and
\* keeps the items put on the line in the making.
MaxPuts == 3

\* A field value of 81 octets, one more than longLineLength
LongValue ==
    "0123456789012345678901234567890123456789"
    \o "01234567890123456789012345678901234567890"

PutStrings == {"1 FETCH"}
PutFields ==
    {<<"FLAGS", "(\\Seen)">>, <<"RFC822.SIZE", "42">>, <<"RFC822.TEXT", LongValue>>}

PutInit ==
    /\ ServerInit
    /\ lx = [pc |-> "response", r |-> createPartialResponse, items |-> <<>>, n |-> 0]

\* resp.put(s)
Put ==
    /\ lx.pc = "response" /\ lx.n < MaxPuts
    /\ \E s \in PutStrings :
         lx' = [lx EXCEPT !.r = put(lx.r, s), !.n = @ + 1,
                          !.items = Append(@, [name |-> s, value |-> "", field |-> FALSE])]
    /\ UNCHANGED serverVars

\* resp.putField(name, value)
PutField ==
    /\ lx.pc = "response" /\ lx.n < MaxPuts
    /\ \E f \in PutFields :
         lx' = [lx EXCEPT !.r = putField(lx.r, f[1], f[2]), !.n = @ + 1,
                          !.items = Append(@, [name |-> f[1], value |-> f[2],
                                               field |-> TRUE])]
    /\ UNCHANGED serverVars

\* resp.putLine(s)
PutLine ==
    /\ lx.pc = "response" /\ lx.n < MaxPuts
    /\ \E s \in PutStrings :
         lx' = [lx EXCEPT !.r = putLine(lx.r, s), !.n = @ + 1,
                          !.items = <<[name |-> s, value |-> "", field |-> FALSE]>>]
    /\ UNCHANGED serverVars

PutSpec == PutInit /\ [][Put \/ PutField \/ PutLine]_vars

\* ------------------------------------------------- listening sockets (ShutSpec)
\* The most IMAP listeners the options configure
MaxListeners == 2

\* s.config.LmtpEndpoints: one listener goroutine each
LmtpEndpoints == {"lmtp1", "lmtp2"}

\* s.config.Listeners[i].listener
ImapSocket(i) == IF i = 1 THEN "imap1" ELSE "imap2"

\* s.socketsMu is free
Unlocked == ""

\* Server.Start begins: the options are set, nothing listens yet
ShutInit ==
    /\ ServerInit
    /\ \E n \in 1..MaxListeners :
         lx = [pc |-> "listen", listeners |-> n, sockets |-> <<>>,
               mu |-> Unlocked, task |-> [t \in LmtpEndpoints |-> "idle"],
               snapshot |-> <<>>, closed |-> {}]

\* Start: net.Listen for the next IMAP listener, then Lock, append, Unlock.
\* No other goroutine of the server runs yet.
StartListen ==
    /\ lx.pc = "listen" /\ Len(lx.sockets) < lx.listeners /\ lx.mu = Unlocked
    /\ lx' = [lx EXCEPT !.sockets = Append(@, ImapSocket(Len(@) + 1))]
    /\ UNCHANGED serverVars

\* Start: go s.runLMTPListener for every entry point, go s.runListener for
\* every listener, then wait for the signal
StartTasks ==
    /\ lx.pc = "listen" /\ Len(lx.sockets) = lx.listeners
    /\ lx' = [lx EXCEPT !.pc = "wait",
                        !.task = [t \in LmtpEndpoints |-> "started"]]
    /\ UNCHANGED serverVars

\* runLMTPListener: net.ListenUnix / net.ListenTCP
LmtpListen(t) ==
    /\ lx.pc # "exit" /\ lx.task[t] = "started"
    /\ lx' = [lx EXCEPT !.task[t] = "listening"]
    /\ UNCHANGED serverVars

\* runLMTPListener: s.socketsMu.Lock()
LmtpLock(t) ==
    /\ lx.pc # "exit" /\ lx.task[t] = "listening" /\ lx.mu = Unlocked
    /\ lx' = [lx EXCEPT !.task[t] = "locked", !.mu = t]
    /\ UNCHANGED serverVars

\* runLMTPListener: s.sockets = append(s.sockets, listener)
LmtpAppend(t) ==
    /\ lx.pc # "exit" /\ lx.task[t] = "locked"
    /\ lx' = [lx EXCEPT !.task[t] = "appended", !.sockets = Append(@, t)]
    /\ UNCHANGED serverVars

\* runLMTPListener: s.socketsMu.Unlock(), then the accept loop
LmtpUnlock(t) ==
    /\ lx.pc # "exit" /\ lx.task[t] = "appended"
    /\ lx' = [lx EXCEPT !.task[t] = "accepting", !.mu = Unlocked]
    /\ UNCHANGED serverVars

\* What an unsynchronised read of s.sockets can return: the slice as it is,
\* or, racing with the append of the goroutine that holds the mutex, the
\* slice the append is about to store
RacyRead ==
    {lx.sockets} \cup
    {Append(lx.sockets, t) : t \in {u \in LmtpEndpoints : lx.task[u] = "locked"}}

\* Start: a signal arrives; "range s.sockets" evaluates the slice once,
\* without taking s.socketsMu
Signal ==
    /\ lx.pc = "wait"
    /\ \E read \in RacyRead : lx' = [lx EXCEPT !.pc = "range", !.snapshot = read]
    /\ UNCHANGED serverVars

\* Start: sock.Close() for the next socket of the range
CloseSocket ==
    /\ lx.pc = "range" /\ lx.snapshot # <<>>
    /\ lx' = [lx EXCEPT !.closed = @ \cup {Head(lx.snapshot)},
                        !.snapshot = Tail(@)]
    /\ UNCHANGED serverVars

\* Start: os.Exit(0)
Exit ==
    /\ lx.pc = "range" /\ lx.snapshot = <<>>
    /\ lx' = [lx EXCEPT !.pc = "exit"]
    /\ UNCHANGED serverVars

ShutNext ==
    \/ StartListen
    \/ StartTasks
    \/ \E t \in LmtpEndpoints : LmtpListen(t)
    \/ \E t \in LmtpEndpoints : LmtpLock(t)
    \/ \E t \in LmtpEndpoints : LmtpAppend(t)
    \/ \E t \in LmtpEndpoints : LmtpUnlock(t)
    \/ Signal
    \/ CloseSocket
    \/ Exit

ShutSpec == ShutInit /\ [][ShutNext]_vars

\* ---------------------------------------------- BoltDB subscriptions (BoltSpec)
\* The most calls made on one mailbox handle
MaxCalls == 3

\* imapsrv.Noselect
Noselect == 2

\* The values of an imapsrv.MailboxFlag: Noinferiors | Noselect | Marked |
\* Unmarked
MailboxFlags == 0..15

\* strconv.Itoa
Itoa(n) ==
    IF n < 10 THEN <<ToString(n)>> ELSE <<ToString(n \div 10), ToString(n % 10)>>

\* strconv.Atoi of a stored value
Atoi(text) == ParseInt(text)

\* &boltMailbox{owner: owner, path: path, store: b}
boltMailbox == [flags |-> 0, subscribed |-> FALSE, metaSet |-> FALSE]

\* The mailbox bucket: the values under flags_key and sub_key, and the
\* mailbox's entry in the owner's subscriptions bucket
Buckets ==
    [flags : {<<>>} \cup {Itoa(n) : n \in MailboxFlags}, sub : BOOLEAN,
     subs : BOOLEAN]

\* boltMailbox.refreshTransaction: the handle after reading the bucket
refreshTransaction(b, box) ==
    [b EXCEPT !.flags = IF Len(box.flags) > 0 THEN Atoi(box.flags) ELSE @,
              !.subscribed = box.sub]

\* boltMailbox.saveMetaTx: the bucket after writing the handle's fields
saveMetaTx(b, box) ==
    [box EXCEPT !.flags = Itoa(b.flags), !.sub = b.subscribed]

\* boltMailbox.Flags: the handle afterwards and the value returned
Flags(b, box) ==
    LET h == IF b.metaSet THEN b ELSE refreshTransaction(b, box) IN
    [b |-> h, flags |-> h.flags]

\* boltMailbox.Subscribed: the handle afterwards and the value returned
BoltSubscribed(b, box) ==
    LET h == IF b.metaSet THEN b
             ELSE [refreshTransaction(b, box) EXCEPT !.metaSet = TRUE] IN
    [b |-> h, subscribed |-> h.subscribed]

\* boltMailbox.Subscribe: the handle and the bucket afterwards
Subscribe(b, box) ==
    LET h == [b EXCEPT !.subscribed = TRUE] IN
    [b |-> h, box |-> saveMetaTx(h, [box EXCEPT !.subs = TRUE])]

\* boltMailbox.Unsubscribe: the handle and the bucket afterwards
Unsubscribe(b, box) ==
    LET h == [b EXCEPT !.subscribed = FALSE] IN
    [b |-> h, box |-> saveMetaTx(h, [box EXCEPT !.subs = FALSE])]

\* The flags a bucket holds, as a fresh handle reads them
StoredFlags(box) == Flags(boltMailbox, box).flags

\* A store with one mailbox, and no handle on it yet
BoltInit ==
    /\ ServerInit
    /\ \E box \in Buckets :
         /\ box.sub = box.subs
         /\ lx = [pc |-> "store", box |-> box, b |-> boltMailbox,
                  calls |-> <<>>, before |-> StoredFlags(box),
                  flags |-> 0, subscribed |-> FALSE]

\* BoltMailstore.Mailbox: a fresh handle
BoltMailbox ==
    /\ lx.pc \in {"store", "handle"}
    /\ lx' = [lx EXCEPT !.pc = "handle", !.b = boltMailbox, !.calls = <<>>]
    /\ UNCHANGED serverVars

BoltCalled(name, b, box) ==
    [lx EXCEPT !.b = b, !.box = box, !.calls = Append(@, name),
               !.before = StoredFlags(lx.box)]

\* mbox.Subscribe()
BoltSubscribe ==
    /\ lx.pc = "handle" /\ Len(lx.calls) < MaxCalls
    /\ LET r == Subscribe(lx.b, lx.box) IN
       lx' = BoltCalled("Subscribe", r.b, r.box)
    /\ UNCHANGED serverVars

\* mbox.Unsubscribe()
BoltUnsubscribe ==
    /\ lx.pc = "handle" /\ Len(lx.calls) < MaxCalls
    /\ LET r == Unsubscribe(lx.b, lx.box) IN
       lx' = BoltCalled("Unsubscribe", r.b, r.box)
    /\ UNCHANGED serverVars

\* mbox.Subscribed()
BoltSubscribedCall ==
    /\ lx.pc = "handle" /\ Len(lx.calls) < MaxCalls
    /\ LET r == BoltSubscribed(lx.b, lx.box) IN
       lx' = [BoltCalled("Subscribed", r.b, lx.box)
                 EXCEPT !.subscribed = r.subscribed]
    /\ UNCHANGED serverVars

\* mbox.Flags()
BoltFlagsCall ==
    /\ lx.pc = "handle" /\ Len(lx.calls) < MaxCalls
    /\ LET r == Flags(lx.b, lx.box) IN
       lx' = [BoltCalled("Flags", r.b, lx.box) EXCEPT !.flags = r.flags]
    /\ UNCHANGED serverVars

BoltNext ==
    \/ BoltMailbox
    \/ BoltSubscribe
    \/ BoltUnsubscribe
    \/ BoltSubscribedCall
    \/ BoltFlagsCall

BoltSpec == BoltInit /\ [][BoltNext]_vars

\* ------------------------------------------------- LMTP connections (LmtpSpec)
\* The most lines (or DATA contents) one client sends
MaxLines == 3

lmtpStatusReady == "220 LMTP server ready"
lmtpStatusClosing == "221 closing connection"
lmtpStatusOK == "250 OK"
lmtpStatusLHLO == "250"
lmtpStatusDataStart == "354 Start mail input; end with <CRLF>.<CRLF>"
lmtpStatusProcessingError == "451 Requested action aborted: error in processing"
lmtpStatusUnknown == "500 command unrecognised"
lmtpStatusSyntaxArgs == "501 Syntax error in parameters or arguments"
lmtpStatusBadSeq == "503 Bad sequence of commands"

\* strings.ToUpper
ToUpper(tok) ==
    [i \in 1..Len(tok) |->
        IF \E k \in DOMAIN LowerCase : LowerCase[k] = tok[i]
        THEN UpperCase[CHOOSE k \in DOMAIN LowerCase : LowerCase[k] = tok[i]]
        ELSE tok[i]]

\* strings.Fields: the maximal runs of octets that are not white space
RECURSIVE FieldsFrom(_, _, _)
FieldsFrom(octets, i, field) ==
    IF i > Len(octets)
    THEN IF field = <<>> THEN <<>> ELSE <<field>>
    ELSE IF octets[i] \in {space, tab}
    THEN (IF field = <<>> THEN <<>> ELSE <<field>>)
         \o FieldsFrom(octets, i + 1, <<>>)
    ELSE FieldsFrom(octets, i + 1, Append(field, octets[i]))

Fields(octets) == FieldsFrom(octets, 1, <<>>)

\* strings.IndexRune: the 0-based index of the first r, or -1
IndexRune(octets, r) ==
    IF \E i \in DOMAIN octets : octets[i] = r
    THEN (CHOOSE i \in DOMAIN octets :
            octets[i] = r /\ \A j \in 1..(i - 1) : octets[j] # r) - 1
    ELSE -1

\* &lmtpSession{rw: textproto.NewConn(c.innerConn)}
lmtpSession ==
    [receivingData |-> FALSE, recipients |-> <<>>, from |-> <<>>,
     closing |-> FALSE]

\* The address between '<' and '>' in MAIL and RCPT: start < 6 || end < start
\* is a syntax error
AddressOf(octets) ==
    LET start == IndexRune(octets, "<")
        end == IndexRune(octets, ">")
    IN  [err |-> start < 6 \/ end < start,
         addr |-> IF start < 6 \/ end < start THEN <<>>
                  ELSE SubSeq(octets, start + 2, end)]

\* lmtpSession.process: the session afterwards, the status line returned, and
\* whether tags[0] was out of range (a runtime panic)
process(ls, tags, octets) ==
    IF tags = <<>>
    THEN [sess |-> ls, output |-> "", panic |-> TRUE]
    ELSE LET verb == ToUpper(tags[1])
             a == AddressOf(octets)
         IN
         CASE verb = <<"L", "H", "L", "O">> ->
                [sess |-> ls, output |-> lmtpStatusLHLO, panic |-> FALSE]
           [] verb = <<"M", "A", "I", "L">> ->
                IF a.err
                THEN [sess |-> ls, output |-> lmtpStatusSyntaxArgs, panic |-> FALSE]
                ELSE [sess |-> [ls EXCEPT !.from = a.addr],
                      output |-> lmtpStatusOK, panic |-> FALSE]
           [] verb = <<"R", "C", "P", "T">> ->
                IF a.err
                THEN [sess |-> ls, output |-> lmtpStatusSyntaxArgs, panic |-> FALSE]
                ELSE [sess |-> [ls EXCEPT !.recipients = Append(@, a.addr)],
                      output |-> lmtpStatusOK, panic |-> FALSE]
           [] verb = <<"Q", "U", "I", "T">> ->
                [sess |-> [ls EXCEPT !.closing = TRUE],
                 output |-> lmtpStatusClosing, panic |-> FALSE]
           [] verb = <<"D", "A", "T", "A">> ->
                IF Len(ls.recipients) = 0
                THEN [sess |-> ls, output |-> lmtpStatusBadSeq, panic |-> FALSE]
                ELSE [sess |-> [ls EXCEPT !.receivingData = TRUE],
                      output |-> lmtpStatusDataStart, panic |-> FALSE]
           [] OTHER ->
                [sess |-> ls, output |-> lmtpStatusUnknown, panic |-> FALSE]

\* The command lines a client sends
LmtpLines ==
    {<<"L", "H", "L", "O", space, "x">>,
     <<"M", "A", "I", "L", space, "F", "R", "O", "M", ":", "<", "a", ">">>,
     <<"M", "A", "I", "L", space, "<", "a", ">">>,
     <<"r", "c", "p", "t", space, "T", "O", ":", "<", "b", ">">>,
     <<"R", "C", "P", "T", space, "T", "O", ":", "b">>,
     <<"D", "A", "T", "A">>,
     <<"q", "u", "i", "t">>,
     <<"N", "O", "O", "P">>,
     <<space>>}

\* go client.handle(s): a connection has been accepted
LmtpInit ==
    /\ ServerInit
    /\ lx = [pc |-> "welcome", session |-> lmtpSession, gone |-> FALSE,
             output |-> "", wire |-> <<>>, n |-> 0]

\* writeSimpleLine: the lines the client has been sent; an error of
\* WriteString or Flush is logged and nothing else
writeSimpleLine(mes, delivered, gone) ==
    IF gone THEN delivered ELSE Append(delivered, mes)

\* handle: the welcome message
LmtpWelcome ==
    /\ lx.pc = "welcome"
    /\ lx' = [lx EXCEPT !.pc = "read",
                        !.wire = writeSimpleLine(lmtpStatusReady, @, lx.gone)]
    /\ UNCHANGED serverVars

\* handle, command mode: the session after ReadLine returned these octets and
\* process ran; the panic of process is recovered and ends the handler
Processed(octets) ==
    LET r == process(lx.session, Fields(octets), octets) IN
    IF r.panic
    THEN [lx EXCEPT !.pc = "closed", !.n = @ + 1]
    ELSE [lx EXCEPT !.pc = "write", !.session = r.sess, !.output = r.output,
                    !.n = @ + 1]

\* handle, command mode: ReadLine returns a line of the client
LmtpReadLine ==
    /\ lx.pc = "read" /\ ~lx.session.receivingData
    /\ ~lx.gone /\ lx.n < MaxLines
    /\ \E octets \in LmtpLines : lx' = Processed(octets)
    /\ UNCHANGED serverVars

\* handle, command mode: ReadLine fails; the error is logged and the empty
\* line is processed
LmtpReadLineError ==
    /\ lx.pc = "read" /\ ~lx.session.receivingData
    /\ lx.gone
    /\ lx' = Processed(<<>>)
    /\ UNCHANGED serverVars

\* handle, DATA mode: ReadDotBytes returns the content
LmtpReadData ==
    /\ lx.pc = "read" /\ lx.session.receivingData
    /\ ~lx.gone /\ lx.n < MaxLines
    /\ lx' = [lx EXCEPT !.pc = "write", !.session.receivingData = FALSE,
                        !.output = lmtpStatusOK, !.n = @ + 1]
    /\ UNCHANGED serverVars

\* handle, DATA mode: ReadDotBytes fails; the status is written and the loop
\* continues
LmtpReadDataError ==
    /\ lx.pc = "read" /\ lx.session.receivingData
    /\ lx.gone
    /\ lx' = [lx EXCEPT !.pc = "write", !.output = lmtpStatusProcessingError]
    /\ UNCHANGED serverVars

\* handle: writeSimpleLine of the status, then return when the session is
\* closing (deferred c.close()), else the next round of the loop
LmtpWrite ==
    /\ lx.pc = "write"
    /\ lx' = [lx EXCEPT !.pc = IF lx.session.closing THEN "closed" ELSE "read",
                        !.wire = writeSimpleLine(lx.output, @, lx.gone),
                        !.output = ""]
    /\ UNCHANGED serverVars

\* The client closes the connection
LmtpClientClose ==
    /\ lx.pc # "closed" /\ ~lx.gone
    /\ lx' = [lx EXCEPT !.gone = TRUE]
    /\ UNCHANGED serverVars

LmtpNext ==
    \/ LmtpWelcome
    \/ LmtpReadLine
    \/ LmtpReadLineError
    \/ LmtpReadData
    \/ LmtpReadDataError
    \/ LmtpWrite
    \/ LmtpClientClose

\* The scheduler runs the handler's goroutine whenever it can take a step; a
\* read of a closed connection returns
LmtpFairness ==
    /\ WF_vars(LmtpWelcome)
    /\ WF_vars(LmtpReadLineError)
    /\ WF_vars(LmtpReadDataError)
    /\ WF_vars(LmtpWrite)

LmtpSpec == LmtpInit /\ [][LmtpNext]_vars /\ LmtpFairness

\* ----------------------------------------------------------------- claims
\* The loop is done with cmd: execute has returned
Finished == ncmds >= 1 /\ pc \in {"next", "closed"} /\ ~chOpen

\* The final (tagged) lines on the wire that carry the tag of command n
FinalsOf(n) == {i \in DOMAIN wire : wire[i].tag = Tag(n)}

\* C1: for every command tag read, the server emits exactly one final
\* (tagged) response carrying that tag: never two, and exactly one once the
\* command has been executed on a connection the client keeps open.
C1_ExactlyOneFinal ==
    \A n \in 1..ncmds :
        /\ Cardinality(FinalsOf(n)) <= 1
        /\ ((n < ncmds \/ Finished) /\ ~clientGone
               => Cardinality(FinalsOf(n)) = 1)

\* C2: commands run strictly one after the other: whenever the loop is about
\* to parse a command (or has left the loop) the producer of the previous
\* command has run all its steps and closed its channel, every response it
\* sent has been written, and never is more than one producer alive.
C2_Sequential ==
    /\ alive <= 1
    /\ ((pc \in {"next", "closed"} /\ ~crashed)
           => ~chOpen /\ alive = 0 /\ todo = <<>>)
    /\ ((pc = "write" /\ ~crashed) => chOpen \/ todo = <<>>)

\* C2 witness: a command that sent two responses is over and the loop is
\* ready to parse the next one
C2_Witness == pc = "next" /\ ncmds >= 1 /\ Len(sent) >= 2 /\ alive = 0

\* C3: nothing of a command follows its final tagged line on the wire: no
\* untagged line of that command and no second tagged line.
C3_UntaggedBeforeFinal ==
    \A i, j \in DOMAIN wire :
        (i < j /\ wire[i].n >= 1 /\ wire[i].n = wire[j].n
               /\ wire[i].tag = Tag(wire[i].n))
            => wire[j].tag \notin {"*", Tag(wire[i].n)}

IsBeginTLS(l) == l.stream = 0 /\ l.text = "OK Begin TLS negotiation now"

\* C5: on a STARTTLS-negotiable listener, once the tagged OK of STARTTLS is
\* on the plaintext stream, nothing more is written to that stream and no
\* command is read from it.
C5_NoPlaintextAfterOK ==
    listener = starttlsLevel =>
        /\ \A i, j \in DOMAIN wire :
              (i < j /\ IsBeginTLS(wire[i])) => wire[j].stream # 0
        /\ (ncmds >= 1 /\ pre.conn >= 1) => readFrom # 0

\* C6: the connection is upgraded to TLS only on a STARTTLS-negotiable
\* listener, from Plaintext, while Unauthenticated.
C6_TlsOnlyFromPlainUnauth ==
    [][(sess'.conn # sess.conn
          \/ (sess'.encryption = tlsLevel /\ sess.encryption # tlsLevel))
       => (listener = starttlsLevel /\ sess.encryption = unencryptedLevel
           /\ sess.st = notAuthenticated /\ sess.conn = 0)]_vars

\* C7: LOGIN while Plaintext on a STARTTLS-negotiable listener is refused:
\* the session stays Unauthenticated with an empty user and the backend is
\* not called.
C7_LoginRefusedInPlaintext ==
    (ncmds >= 1 /\ cmd.kind = "login" /\ listener = starttlsLevel
         /\ pre.encryption = unencryptedLevel /\ pre.st = notAuthenticated)
      => (sess.st = notAuthenticated /\ sess.user = "" /\ calls.auth = 0)

\* The CAPABILITY line that advertises LOGINDISABLED
LoginDisabledLine == "CAPABILITY IMAP4rev1 STARTTLS LOGINDISABLED"

\* C8: a CAPABILITY response advertises LOGINDISABLED exactly when the
\* listener is STARTTLS-negotiable and the session is Plaintext, whatever
\* the authentication state.
C8_LoginDisabledIff ==
    (ncmds >= 1 /\ cmd.kind = "capability" /\ sent # <<>>)
      => ((sent[1].current = LoginDisabledLine)
            <=> (listener = starttlsLevel /\ pre.encryption = unencryptedLevel))

\* The only response of cmd has condition cond and carries the tag of cmd
OnlyResponse(cond) ==
    /\ Len(sent) = 1 /\ sent[1].final
    /\ sent[1].condition = cond /\ sent[1].tag = cmd.tag

C10_Select ==
    (ncmds >= 1 /\ cmd.kind \in {"select", "examine"} /\ fault = "none"
         /\ pre.st # notAuthenticated)
      => /\ ~crashed
         /\ (Finished /\ StoreHas(cmd.mailbox))
              => (sess.st = selected /\ sess.mailbox.provider = cmd.mailbox
                  /\ OnlyResponse("OK"))
         /\ (Finished /\ ~StoreHas(cmd.mailbox))
              => (sess.st = authenticated /\ OnlyResponse("NO"))

\* C11: STATUS on an existing mailbox leaves the session's state and its
\* selected mailbox exactly as they were before the call, and STATUS changes
\* the state only from Selected to Authenticated for a mailbox that does not
\* exist.
C11_StatusFrame ==
    (ncmds >= 1 /\ cmd.kind = "status" /\ fault = "none")
      => /\ (Finished /\ StoreHas(cmd.mailbox))
              => (sess.st = pre.st /\ sess.mailbox = pre.mailbox)
         /\ (sess.st # pre.st)
              => (~StoreHas(cmd.mailbox) /\ pre.st = selected
                  /\ sess.st = authenticated)

\* The lines on the wire that were written for command n, in order
WireOf(n) == SelectSeq(wire, LAMBDA l : l.n = n)

C13_SelectedHasMailbox ==
    sess.st = selected
      => (~sess.mailbox.isNil /\ sess.mailbox.provider # ""
          /\ StoreHas(sess.mailbox.provider))

\* C14: once a command is done, a session that is not Selected holds no
\* mailbox reference, and a LOGOUT has cleared both the user and the mailbox.
C14_MailboxOnlyWhileSelected ==
    Finished
      => /\ (sess.st # selected => sess.mailbox = NilMailbox)
         /\ (cmd.kind = "logout" => (sess.user = "" /\ sess.mailbox = NilMailbox))

\* C15: after a parse error the connection is closed and, unless the client
\* had already gone, the last line written to the client is the untagged
\* "BYE <reason>" of that error.
C15_ParseErrorBye ==
    fatal.final
      => /\ pc = "closed" /\ ~connOpen
         /\ ~clientGone
              => /\ wire # <<>>
                 /\ wire[Len(wire)].tag = "*"
                 /\ wire[Len(wire)].text = "BYE " \o fatal.message

\* C16: no client input makes a command handler terminate the server
\* process; stated for a FETCH in a Selected session, whose sequence numbers
\* the client chooses freely.
C16_HandlerNeverKillsProcess ==
    (ncmds >= 1 /\ cmd.kind = "fetch" /\ pre.st = selected) => ~crashed

\* The sequence numbers a sequence set stands for in a mailbox of `size`
\* messages, "*" being the largest sequence number in use
RECURSIVE NumbersOf(_, _)
NumbersOf(ranges, size) ==
    IF ranges = <<>> THEN <<>>
    ELSE LET r == Head(ranges)
             hi == IF r.end = 0 THEN r.start
                   ELSE IF r.end = largestSequenceNumber THEN size
                   ELSE r.end
         IN [i \in 1..(hi - r.start + 1) |-> r.start + i - 1]
            \o NumbersOf(Tail(ranges), size)

\* C17: FETCH in Selected, the provider not failing, answers one "n FETCH"
\* line for every sequence number of its sequence set, in ascending order
\* per range with "*" the largest sequence number in use, and then the tagged
\* OK; it always gets that far.
C17_FetchLines ==
    (ncmds >= 1 /\ cmd.kind = "fetch" /\ pre.st = selected /\ fault = "none")
      => /\ ~crashed
         /\ Finished
              => LET ns == NumbersOf(cmd.sequenceSet,
                                     ProviderTotalMessages(pre.mailbox.provider))
                 IN /\ Len(sent) = Len(ns) + 1
                    /\ \A i \in 1..Len(ns) :
                          /\ ~sent[i].final
                          /\ sent[i].current =
                               putField(put(partial, ToString(ns[i]) \o " FETCH"),
                                        "FLAGS", "(\\Seen)").current
                    /\ sent[Len(sent)] = ok(cmd.tag, "FETCH completed")

\* C18: the sequence table of a mailbox, once built, is the provider's UID
\* enumeration, and the message fetched for sequence number n is the one with
\* the n-th UID of that enumeration (sequence number 1 the first UID).
C18_SeqToUid ==
    /\ (~sess.mailbox.isNil /\ sess.mailbox.built)
          => sess.mailbox.seqNums = ProviderAllUids(sess.mailbox.provider)
    /\ \A k \in DOMAIN calls.fetched :
          LET seqnum == calls.fetched[k][1]
              uid == calls.fetched[k][2]
          IN uid = ProviderAllUids(sess.mailbox.provider)[seqnum]

\* C19: a literal argument "{n}CRLF" followed by n octets is lexed to a token
\* that is exactly those n octets, also when the octets hold line breaks.
C19_LiteralToken ==
    (lx.pc \in {"password", "done"} /\ lx.input.userLit)
      => lx.userId = lx.input.user

\* The octets hold no line break
NoLineBreak(octets) == \A i \in DOMAIN octets : octets[i] \notin {cr, lf}

\* C20: after a literal that holds no line break the next token is the one
\* that follows the literal: the LOGIN command is parsed with the user and
\* the password the client sent.
C20_TokenAfterLiteral ==
    (lx.pc = "done" /\ lx.input.userLit /\ NoLineBreak(lx.input.user))
      => (lx.userId = lx.input.user /\ lx.password = lx.input.pass)

\* The octets the astring grammar admits outside quotes and literals
AstringChar(c) ==
    /\ Ord(c) > 32 /\ Ord(c) < 127
    /\ c \notin {space, "(", ")", "%", "*", backslash, leftCurly}

RECURSIVE LongestPrefix(_)
LongestPrefix(s) ==
    IF s = <<>> \/ ~AstringChar(s[1]) THEN <<>>
    ELSE <<s[1]>> \o LongestPrefix(Tail(s))

RECURSIVE DropSpaces(_)
DropSpaces(s) ==
    IF s # <<>> /\ s[1] = space THEN DropSpaces(Tail(s)) ELSE s

\* C21: astring on a bare input (neither quoted nor a literal, read from the
\* first octet that is not a space) returns the longest prefix of octets
\* between space and DEL outside {SP ( ) % * \ {} and stops at the first
\* excluded octet; with an empty prefix it fails and gives no token; a quoted
\* "" gives the empty string.
C21_Astring ==
    (lx.pc \in {"done", "failed"})
      => LET rest == DropSpaces(lx.input.body)
             prefix == LongestPrefix(rest)
         IN /\ (rest = <<>> \/ rest[1] \notin {doubleQuote, leftCurly})
                 => /\ lx.pc = "done"
                    /\ lx.ok = (prefix # <<>>)
                    /\ lx.tok = prefix
                    /\ lx.l.idx = Len(lx.input.body) - Len(rest) + Len(prefix)
            /\ (Len(rest) >= 2 /\ SubSeq(rest, 1, 2) = <<doubleQuote, doubleQuote>>)
                 => lx.pc = "done" /\ lx.ok /\ lx.tok = <<>>

\* An input that stops at an excluded octet after "[" and "]" were accepted
C21_Witness ==
    /\ lx.pc = "done" /\ lx.input.body = <<"[", "]", ")">>
    /\ lx.ok /\ lx.tok = <<"[", "]">>

\* The response body of command n as the client received it: the text of each
\* line after the tag
BodyOf(n) == [i \in 1..Len(WireOf(n)) |-> WireOf(n)[i].text]

InfoLines(m) ==
    << ToString(ProviderTotalMessages(m)) \o " EXISTS",
       ToString(ProviderRecentMessages(m)) \o " RECENT",
       "OK [UNSEEN " \o ToString(ProviderFirstUnseen(m)) \o "] Message "
         \o ToString(ProviderFirstUnseen(m)) \o " is first unseen",
       "OK [UIDVALIDITY " \o ToString(ProviderUidValidity(m)) \o "] UIDs valid",
       "OK [UIDNEXT " \o ToString(ProviderNextUid(m)) \o "] Predicted next UID" >>

\* The tags of the lines of command n as the client received them
TagsOf(n) == [i \in 1..Len(WireOf(n)) |-> WireOf(n)[i].tag]

\* C23: a successful SELECT writes the untagged lines EXISTS, RECENT,
\* OK [UNSEEN], OK [UIDVALIDITY], OK [UIDNEXT] in this order, all before the
\* tagged "OK SELECT completed"; when a provider query fails none of these
\* lines is written.
C23_SelectInfoOrder ==
    (Finished /\ cmd.kind = "select" /\ pre.st # notAuthenticated /\ ~crashed)
      => /\ (sent # <<>> /\ sent[Len(sent)].condition = "OK")
              => /\ BodyOf(ncmds) \in
                      {<<>>, InfoLines(cmd.mailbox) \o <<"OK SELECT completed">>}
                 /\ (BodyOf(ncmds) # <<>>
                       => TagsOf(ncmds) = <<"*", "*", "*", "*", "*", cmd.tag>>)
                 /\ (~clientGone => BodyOf(ncmds) # <<>>)
         /\ (fault # "none")
              => /\ \A i \in 1..Len(BodyOf(ncmds)) : TagsOf(ncmds)[i] # "*"
                 /\ \A i \in 1..Len(sent) : sent[i].condition # "OK"

\* C25: FETCH in a session that is not Selected (Unauthenticated, or
\* Authenticated with no selected mailbox) has a tagged BAD as its only
\* response and touches neither the selected mailbox nor the provider.
C25_FetchNotSelected ==
    (ncmds >= 1 /\ cmd.kind = "fetch" /\ pre.st # selected)
      => /\ ~crashed
         /\ calls = NoCalls
         /\ sess = pre
         /\ \A i \in 1..Len(sent) :
              i = 1 /\ sent[i].final /\ sent[i].condition = "BAD"
         /\ (Finished => OnlyResponse("BAD"))

\* Two octets that are the same letter in either case, or the same octet
SameLetter(a, b) ==
    \/ a = b
    \/ \E k \in DOMAIN UpperCase : {a, b} = {UpperCase[k], LowerCase[k]}

\* The names the command switch knows, octet by octet
RegistryNames ==
    { <<"n", "o", "o", "p">>,
      <<"c", "a", "p", "a", "b", "i", "l", "i", "t", "y">>,
      <<"s", "t", "a", "r", "t", "t", "l", "s">>,
      <<"l", "o", "g", "i", "n">>,
      <<"l", "o", "g", "o", "u", "t">>,
      <<"s", "e", "l", "e", "c", "t">>,
      <<"d", "e", "l", "e", "t", "e">>,
      <<"l", "i", "s", "t">>,
      <<"f", "e", "t", "c", "h">> }

\* The keyword of the command line compared with the registry without regard
\* to the case of its letters: the registered name, or "unknown"
RegisteredAs(keyword) ==
    LET matches ==
          {name \in RegistryNames :
             /\ Len(name) = Len(keyword)
             /\ \A i \in 1..Len(name) : SameLetter(name[i], keyword[i])}
    IN IF matches = {} THEN "unknown" ELSE Join(CHOOSE name \in matches : TRUE, "")

C27_WitnessKnown ==
    /\ lx.pc = "done" /\ lx.input.keyword = <<"L", "o", "G", "i", "n">>
    /\ lx.kind = "login"

\* C30: session.list terminates for every reference, pattern and finite
\* mailbox tree, a pattern with a name after a wildcard such as %/a included:
\* the recursion of depthFirstMailboxes always comes to an end.
C30_ListTerminates ==
    lx.pc = "done" => ~lx.out.overflow

\* A path below the reference matches a pattern segment by segment: % stands
\* for exactly one segment, a name for itself, * for arbitrarily many
\* segments, which is read as `least` or more
RECURSIVE MatchesPattern(_, _, _)
MatchesPattern(segments, pattern, least) ==
    IF pattern = <<>> THEN segments = <<>>
    ELSE CASE pattern[1] = "*" ->
                \E k \in least..Len(segments) :
                  MatchesPattern(SubSeq(segments, k + 1, Len(segments)),
                                 Tail(pattern), least)
           [] pattern[1] = "%" ->
                /\ segments # <<>>
                /\ MatchesPattern(Tail(segments), Tail(pattern), least)
           [] OTHER -> /\ segments # <<>> /\ segments[1] = pattern[1]
                       /\ MatchesPattern(Tail(segments), Tail(pattern), least)

Matched(store, reference, pattern, least) ==
    {p \in store :
       /\ Len(p) >= Len(reference)
       /\ SubSeq(p, 1, Len(reference)) = reference
       /\ MatchesPattern(SubSeq(p, Len(reference) + 1, Len(p)), pattern, least)}

\* The paths of the mailboxes session.list returned, in order
ListedPaths == [i \in DOMAIN lx.out.ret |-> lx.out.ret[i].provider.path]

\* C29: session.list(reference, pattern) returns exactly the mailboxes that
\* match the pattern under the reference, each at most once: nothing that does
\* not match even when * may stand for no segment, everything that matches
\* when * stands for one or more.  Stated for patterns of wildcards only, a
\* provider that answers every call and a list that returned.
C29_ListMatches ==
    (/\ lx.pc = "done" /\ lx.input.fault = "none"
     /\ ~lx.out.overflow /\ ~lx.out.panic
     /\ lx.input.pattern # <<>>
     /\ \A i \in DOMAIN lx.input.pattern : lx.input.pattern[i] \in {"%", "*"})
      => LET listed == {ListedPaths[i] : i \in DOMAIN ListedPaths} IN
         /\ listed \subseteq
              Matched(lx.input.store, lx.input.reference, lx.input.pattern, 0)
         /\ Matched(lx.input.store, lx.input.reference, lx.input.pattern, 1)
              \subseteq listed
         /\ \A i, j \in DOMAIN ListedPaths :
              ListedPaths[i] = ListedPaths[j] => i = j

\* The provider call picked to fail was made while cmd ran (NOOP, SELECT,
\* EXAMINE and STATUS: the handlers whose provider calls are all modelled)
ProviderFailed ==
    \/ /\ cmd.kind = "noop" /\ pre.st = selected /\ fault = "Info"
    \/ /\ cmd.kind \in {"select", "examine", "status"}
       /\ pre.st # notAuthenticated
       /\ \/ fault = "Mailbox"
          \/ fault = "Info" /\ StoreHas(cmd.mailbox)

\* C26: an error of the mailbox provider while a command runs is reported
\* as a tagged NO with the error text and the close flag set, the connection
\* then ends, and no tagged OK is sent for the command.
C26_ProviderErrorIsNo ==
    (Finished /\ ~crashed /\ ProviderFailed)
      => /\ OnlyResponse("NO")
         /\ sent[1].closeConnection
         /\ sent[1].message \in {"SELECT provider error", "EXAMINE provider error",
                                 "STATUS provider error", "NOOP provider error"}
         /\ pc = "closed" /\ ~connOpen

\* C24: a command that needs a logged-in user (here CREATE, DELETE, RENAME,
\* SUBSCRIBE, UNSUBSCRIBE), executed on an unauthenticated session, is answered
\* with one tagged BAD that does not close the connection, calls nothing on the
\* mailstore and leaves the store as it was.
C24_UnauthenticatedIsBad ==
    (lx.pc = "done" /\ lx.input.s.st = notAuthenticated)
      => /\ Len(lx.out.sent) = 1
         /\ lx.out.sent[1].condition = "BAD"
         /\ lx.out.sent[1].tag = lx.input.c.tag
         /\ ~lx.out.sent[1].closeConnection
         /\ lx.out.calls = <<>>
         /\ lx.out.store = lx.input.store

RenameCalls(mcalls) == {i \in 1..Len(mcalls) : mcalls[i][1] = "Rename"}

\* C28: RENAME old new by a logged-in user: if new exists the answer is NO
\* "name already taken" and the store is unchanged; if old does not exist the
\* answer is NO and the store is unchanged; otherwise the mailbox's Rename is
\* called exactly once and the answer is OK.
C28_Rename ==
    (lx.pc = "done" /\ lx.input.c.kind = "rename"
                    /\ lx.input.s.st # notAuthenticated)
      => LET c == lx.input.c
             oldExists == c.oldname \in lx.input.store
             newExists == c.newname \in lx.input.store
             r == lx.out.sent[1]
         IN  /\ Len(lx.out.sent) = 1
             /\ newExists => /\ r.condition = "NO"
                             /\ r.message = "name already taken"
                             /\ lx.out.store = lx.input.store
             /\ ~oldExists => /\ r.condition = "NO"
                              /\ lx.out.store = lx.input.store
             /\ (oldExists /\ ~newExists)
                  => /\ Cardinality(RenameCalls(lx.out.calls)) = 1
                     /\ r.condition = "OK"

\* C31: for every reference and pattern LIST accepts, LSUB returns exactly the
\* mailboxes LIST returns that are subscribed, with the flags LIST gives them,
\* and the unsubscribed ones with a subscribed descendant, flagged \Noselect.
C31_LsubIsListOfSubscribed ==
    (lx.pc = "done" /\ lx.list.parsed /\ lx.list.returned /\ lx.list.condition = "OK"
                    /\ lx.input.pattern # <<>>)
      => LET listed == {lx.list.lines[i] : i \in DOMAIN lx.list.lines}
             subs == lx.input.subs
         IN  /\ lx.lsub.parsed /\ lx.lsub.returned /\ lx.lsub.condition = "OK"
             /\ {lx.lsub.lines[i] : i \in DOMAIN lx.lsub.lines}
                  = {m \in listed : m.path \in subs}
                    \cup {[flags |-> "\\Noselect", path |-> m.path] :
                            m \in {n \in listed :
                                     /\ n.path \notin subs
                                     /\ \E q \in subs :
                                          /\ Len(q) > Len(n.path)
                                          /\ SubSeq(q, 1, Len(n.path)) = n.path}}

\* C32: a lexer recogniser that returns ok = false leaves the cursor where it
\* was before the call.
C32_FailedRecogniserKeepsCursor ==
    (lx.called \in Recognisers /\ ~lx.ok /\ ~lx.l.err) => lx.l.idx = lx.before

\* C33: every range of a parsed sequence set has a start between 1 and the
\* largest 32-bit number and an end that is absent or in that interval (the
\* largest number standing for *): 0 and numbers beyond the type are rejected.
C33_SequenceRange ==
    (lx.called = "expectSequenceSet" /\ lx.ok)
      => \A i \in DOMAIN lx.value :
           /\ lx.value[i].start >= 1 /\ lx.value[i].start <= largestSequenceNumber
           /\ \A j \in DOMAIN lx.value[i].end :
                /\ lx.value[i].end[j] >= 1
                /\ lx.value[i].end[j] <= largestSequenceNumber

\* The octets from the cursor of the last call to the end of the line
Rest(l, from) == SubSeq(l.line, from + 1, Len(l.line))

\* C34: on '<' integer '.' non-zero-integer '>' the parser yields (from-octet,
\* length) with length > 0, so <0.10> gives from 0 and length 10; any other
\* shape after '<' is a parse error.
C34_FetchPartial ==
    (lx.called = "optionalFetchPartial" /\ lx.before < Len(lx.l.line)
                                        /\ lx.l.line[lx.before + 1] = "<")
      => /\ Rest(lx.l, lx.before) = <<"<", "0", ".", "1", "0", ">">>
              => /\ lx.ok
                 /\ lx.value = << [fromOctet |-> 0, length |-> [hi |-> 0, lo |-> 10]] >>
         /\ lx.ok => /\ Len(lx.value) = 1
                     /\ lx.value[1].length # [hi |-> 0, lo |-> 0]
         /\ Rest(lx.l, lx.before) \in {<<"<", "5", ">">>, <<"<", ".", "1", ">">>,
                                       <<"<", "0", ".", "0", ">">>}
              => ~lx.ok /\ lx.l.err

\* What an item adds to its line: a string itself, a field 'name value', a
\* field with a value of more than 80 octets its name and the literal
\* '{n}CRLF<n octets>CRLF', n the number of octets of the value
ItemText(item) ==
    IF ~item.field THEN item.name
    ELSE IF Len(item.value) > 80
    THEN item.name \o "{" \o ToString(Len(item.value)) \o "}\r\n" \o item.value \o "\r\n"
    ELSE item.name \o " " \o item.value

RECURSIVE SpaceSeparated(_)
SpaceSeparated(items) ==
    IF items = <<>> THEN ""
    ELSE IF Len(items) = 1 THEN ItemText(items[1])
    ELSE ItemText(items[1]) \o " " \o SpaceSeparated(Tail(items))

\* C35: after any put, putField and putLine calls the line in the making is
\* its items in the order they were put, consecutive items separated by
\* exactly one SP, a field being 'name value' or, for a value of more than 80
\* octets, its name and the literal {n}CRLF<value>CRLF.  Stated for a line of
\* fields with or without a string such as 'n FETCH' in front.
C35_FieldsSpaceSeparated ==
    (\A i \in DOMAIN lx.items : i > 1 => lx.items[i].field)
      => lx.r.current = SpaceSeparated(lx.items)

\* The socket write of the connection's writer has failed: bufio keeps the
\* error of a failed Flush
WriteFailed == bufout.err

\* A response with the close flag has been received for the current command
CloseSeen == \E i \in DOMAIN sent : isClose(sent[i])

\* The connection task has ended and the socket is closed (c.conn.Close, or
\* the end of the process)
TaskEnded == (pc = "closed" /\ ~connOpen) \/ crashed

\* C36: the session loop never parses another command after a response with
\* the close flag or after a write to the socket has failed
C36_NoParseAfterCloseOrWriteError ==
    [][(CloseSeen \/ WriteFailed) => ncmds' = ncmds]_vars

\* C36, termination: a close flag, a write error seen by the loop, a parse
\* error and a dropped connection each lead to the end of the task with the
\* socket closed
C36_ExitPathsTerminate ==
    /\ (CloseSeen \/ ~keepOpen) ~> TaskEnded
    /\ clientGone ~> TaskEnded
    /\ (fatal # partial) ~> TaskEnded

C37_IterationHoldsMutex == lx.pc = "range" => lx.mu = "start"

\* C37: every socket registered in s.sockets is closed when the shutdown
\* handler exits
C37_RegisteredSocketsClosed ==
    lx.pc = "exit" => \A i \in DOMAIN lx.sockets : lx.sockets[i] \in lx.closed

\* C37: every access to s.sockets holds s.socketsMu, so that every socket
\* ever registered is closed at shutdown
C37_SocketsUnderMutex == C37_IterationHoldsMutex /\ C37_RegisteredSocketsClosed

\* C39: Subscribe and Unsubscribe on a handle fresh from the store leave the
\* stored flags of the mailbox as they were, and Subscribed() is false after
\* Subscribe followed by Unsubscribe
C39_SubscribeKeepsFlags ==
    LET n == Len(lx.calls) IN
    /\ (lx.pc = "handle" /\ n = 1 /\ lx.calls[1] \in {"Subscribe", "Unsubscribe"})
         => StoredFlags(lx.box) = lx.before
    /\ (lx.pc = "handle" /\ n = 3 /\ lx.calls = <<"Subscribe", "Unsubscribe", "Subscribed">>)
         => ~lx.subscribed

\* C39, second half alone: Subscribed() is false after Subscribe followed by
\* Unsubscribe
C39_UnsubscribeRestores ==
    (lx.pc = "handle" /\ lx.calls = <<"Subscribe", "Unsubscribe", "Subscribed">>)
        => ~lx.subscribed

\* C40: once the client has closed the connection the LMTP handler ends and
\* closes the connection, whether it is reading a command line or DATA content
C40_LmtpHandlerTerminates == lx.gone ~> lx.pc = "closed"

\* C40, command mode alone: a read error of a command line ends the handler
C40_CommandModeTerminates ==
    (lx.gone /\ ~lx.session.receivingData) ~> lx.pc = "closed"

====
